---- MODULE Spec2Model ----
(***************************************************************************)
(* Ledger side of the trade-document system: one DocumentStore (the        *)
(* lifecycle state machine issue / sign / revoke with its AccessControl    *)
(* roles) together with the per-document signer whitelist of the           *)
(* DocumentRegistry it consults.  Every external call is one atomic        *)
(* ledger transaction; a reverting call leaves the contract storage as it  *)
(* was and only its outcome is observed (variable last).  Spec runs the    *)
(* calls one after the other; SpecConc keeps several issue transactions    *)
(* in flight and lets the ledger mine them in any order.                   *)
(*                                                                         *)
(* Off the ledger, the backend commits a JSON document to a Merkle root    *)
(* (saltDocument, buildLeaves, merkleRoot, wrapDocument) and verifies a    *)
(* wrapped document against it (verifyWrappedMerkle).  SpecMerkle applies  *)
(* these functions to bounded documents; SpecBackend runs the HTTP         *)
(* handlers issue / sign / revoke / verify against the store.              *)
(* SpecIssuing runs the handlers next to direct calls of the store, and    *)
(* SpecMalformed commits documents with a node of no JSON type.            *)
(*                                                                         *)
(* The governance variables hold the DocumentStoreFactory (one store per   *)
(* organisation, role management of the stores it deployed) and the        *)
(* four whitelists of the DocumentRegistry.  SpecGovernance runs the       *)
(* factory and the registry, SpecRegistry the store next to the issuer     *)
(* whitelist, and SpecAttest two documents with their attestations.        *)
(* The stores the factory deploys hold documents of their own              *)
(* (deployedDocuments): SpecStores runs two documents in each of two       *)
(* stores, SpecSettings the first store next to the type whitelists.       *)
(*                                                                         *)
(* A handler of the backend gives way at each await.  SpecRequests runs    *)
(* /document/issue and /document/verify step by step for two users with    *)
(* a store each (requests holds each run, collection every saved record);  *)
(* SpecReading runs the handlers whole, GET /document/single included.     *)
(***************************************************************************)
EXTENDS Integers, Sequences, FiniteSets, TLC

\* ------------------------------------------------------------------ bounds
MaxTime == 2          \* block.timestamp ranges over 1..MaxTime
MaxPending == 2       \* issue transactions that can be in flight together
MaxCommits == 2       \* calls of wrapDocument on one document
MaxStores == 2        \* stores the factory deploys, the first one included

\* ------------------------------------------------------------ input sets
Address == {"admin", "storeAdmin", "alice"}
Users == {"storeAdmin", "alice"}   \* the users of the backend
DocumentIds == {"d1"}
DocumentHashes == {"h1", "h2"}
DocumentTypes == {"INVOICE"}
ZeroAddress == "0x0"
Zero32 == "0x00"

\* contracts: the factory, and the addresses its deployments get in order;
\* the first one is the store whose documents are modelled
FactoryAddress == "factory"
StoreAddresses == <<"store1", "store2", "store3", "store4">>
Stores == {StoreAddresses[i] : i \in 1..Len(StoreAddresses)}
TheStore == StoreAddresses[1]
OrganisationId == "ORG:MAERSK"
OrganisationIds == {OrganisationId}

\* accounts whose store roles / whitelist entries the runs change
RoleTargets == {"alice"}
\* the callers and revoke reasons the runs draw from
StoreCallers == {"storeAdmin", "alice"}
RegistryCallers == {"admin", "alice"}
Reasons == {"FRAUD", "OTHER"}
SignerTargets == {"storeAdmin", "alice"}

ISSUER_ROLE == "ISSUER_ROLE"
SIGNER_ROLE == "SIGNER_ROLE"
REVOKER_ROLE == "REVOKER_ROLE"
DEFAULT_ADMIN_ROLE == "DEFAULT_ADMIN_ROLE"
REGISTRY_ADMIN_ROLE == "REGISTRY_ADMIN_ROLE"
FACTORY_ADMIN_ROLE == "FACTORY_ADMIN_ROLE"
StoreRoles == {DEFAULT_ADMIN_ROLE, ISSUER_ROLE, SIGNER_ROLE, REVOKER_ROLE}
OperationalRoles == {ISSUER_ROLE, SIGNER_ROLE, REVOKER_ROLE}

State == {"None", "Issued", "Signed", "Revoked"}
RevokeReason == {"USER_REQUEST", "FRAUD", "REISSUED", "OTHER"}

\* revert reasons
OK == "ok"
MissingRole == "AccessControlUnauthorizedAccount"
AlreadyExists == "Document Already Exists"
NotSignable == "Document not signable"
NotAllowed == "Signer not allowed"
AlreadySigned == "Document already signed"
NotRevocable == "Document not revocable"
InvalidOrganisation == "Invalid Organisation ID"
InvalidAdmin == "Invalid Admin Address"
StoreIsZero == "store=0"
AccountIsZero == "account=0"
NoCode == "call to non-contract"

VARIABLES
    meta,                       \* DocumentStore.meta
    signedAt,                   \* DocumentStore.signedAt
    roles,                      \* AccessControl._roles of the store
    allowedSignerForDocument,   \* DocumentRegistry.allowedSignerForDocument
    registryRoles,              \* AccessControl._roles of the registry
    events,                     \* events the store has emitted
    now,                        \* block.timestamp
    pending,                    \* issue transactions sent to the ledger
    last,                       \* the most recent call and its outcome
    rawDoc,                     \* the document handed to wrapDocument
    wrappedDocs,                \* what the calls of wrapDocument returned
    merkleCall,                 \* the most recent call of the root helpers
    documents,                  \* the Documents collection of the backend
    response,                   \* the most recent HTTP request and response
    requests,                   \* the requests under way, one per client:
                                \* where each one stands, what it has read
    collection,                 \* every record that save() has inserted, in
                                \* order; documents[d] is the one of them
                                \* that findOneByDocumentId(d) returns
    factory,                    \* storage of the DocumentStoreFactory
    deployed,                   \* AccessControl._roles of the stores it deploys
    deployedDocuments,          \* meta and signedAt of the stores it deploys
    registry                    \* the other whitelists of the DocumentRegistry:
                                \* a mapping to bool is the set of the key
                                \* pairs it maps to true

\* what lives off the ledger: the Merkle helpers' data and the backend's
offLedger == <<rawDoc, wrappedDocs, merkleCall, documents, response,
              requests, collection>>

\* the factory, the further stores it deploys and the registry's whitelists
governance == <<factory, deployed, deployedDocuments, registry>>

vars == <<meta, signedAt, roles, allowedSignerForDocument, registryRoles,
          events, now, pending, last, offLedger, governance>>

\* ------------------------------------------------------------- JS values
\* A value of the backend is a node: a primitive, an array or a plain
\* object.  A string is a sequence of text tokens (the pieces that ':'
\* separates) followed by the digits of a hash when it is a hex string;
\* a number n is kept in tenths (10 is 1, 15 is 1.5); an object keeps its
\* keys in insertion order, items[i] being the value of keys[i].
Node(kind, js, n, s, hex, keys, items) ==
    [kind |-> kind, js |-> js, n |-> n, s |-> s, hex |-> hex,
     keys |-> keys, items |-> items]

StringValue(s) == Node("prim", "string", 0, s, <<>>, <<>>, <<>>)
HexString(prefix, digits) == Node("prim", "string", 0, prefix, digits, <<>>, <<>>)
NumberValue(tenths) == Node("prim", "number", tenths, <<>>, <<>>, <<>>, <<>>)
BooleanValue(b) ==
    Node("prim", "boolean", IF b THEN 1 ELSE 0, <<>>, <<>>, <<>>, <<>>)
Null == Node("prim", "null", 0, <<>>, <<>>, <<>>, <<>>)
Undefined == Node("prim", "undefined", 0, <<>>, <<>>, <<>>, <<>>)
ArrayValue(items) == Node("array", "object", 0, <<>>, <<>>, <<>>, items)
ObjectValue(keys, items) == Node("object", "object", 0, <<>>, <<>>, keys, items)

\* before any call of the Merkle helpers and any request to the backend
NoRoot == [threw |-> FALSE, root |-> Undefined]
NoMerkleCall ==
    [fn |-> "none", commit |-> 0, against |-> 0,
     wrapped |-> [data |-> Undefined, merkleRoot |-> Undefined],
     ok |-> FALSE, reason |-> "",
     computedRoot |-> Undefined, targetRoot |-> Undefined,
     leaves |-> <<>>, fromDocument |-> NoRoot, fromLeaves |-> NoRoot,
     verifying |-> Undefined]
NoRecord == [documentHash |-> Undefined, rawDocInfo |-> Undefined,
             wrappedDocInfo |-> [data |-> Undefined, merkleRoot |-> Undefined]]
NoRequest ==
    [op |-> "none", documentId |-> Zero32,
     wrappedDocument |-> [data |-> Undefined, merkleRoot |-> Undefined],
     status |-> 0, error |-> "", details |-> "", verified |-> FALSE,
     revokedAt |-> 0, documentHash |-> Undefined]

DocumentMeta(h, t, i, ia, ra, s) ==
    [documentHash |-> h, documentType |-> t, issuer |-> i,
     issuedAt |-> ia, revokedAt |-> ra, state |-> s]

EmptyMeta == DocumentMeta(Zero32, Zero32, ZeroAddress, 0, 0, "None")

\* a client with no request under way
Idle ==
    [pc |-> "idle", op |-> "none", documentId |-> Zero32,
     store |-> ZeroAddress, documentType |-> Zero32, isSignable |-> FALSE,
     recipient |-> ZeroAddress, body |-> Undefined,
     wrappedDocument |-> [data |-> Undefined, merkleRoot |-> Undefined],
     documentHash |-> Undefined, computedRoot |-> Undefined,
     metaRead |-> EmptyMeta, isIssuedRead |-> FALSE]

OffLedgerInit ==
    /\ rawDoc = Undefined
    /\ wrappedDocs = <<>>
    /\ merkleCall = NoMerkleCall
    /\ documents = [d \in DocumentIds |-> NoRecord]
    /\ response = NoRequest
    /\ requests = [u \in Users |-> Idle]
    /\ collection = <<>>

DocumentIssued(documentId, documentType, issuer, documentHash) ==
    [event |-> "DocumentIssued", documentId |-> documentId,
     account |-> issuer, arg |-> <<documentType, documentHash>>]

DocumentSigned(documentId, signer) ==
    [event |-> "DocumentSigned", documentId |-> documentId,
     account |-> signer, arg |-> <<>>]

DocumentRevoked(documentId, revoker, reason) ==
    [event |-> "DocumentRevoked", documentId |-> documentId,
     account |-> revoker, arg |-> <<reason>>]

emitted(name, documentId) ==
    \E e \in events : e.event = name /\ e.documentId = documentId

NoCall == [op |-> "none", caller |-> ZeroAddress, documentId |-> Zero32,
           documentHash |-> Zero32, documentType |-> Zero32,
           res |-> OK, ret |-> FALSE]

\* a state-changing call: who called what, and OK or the revert reason
Call(op, caller, d, res) ==
    [NoCall EXCEPT !.op = op, !.caller = caller, !.documentId = d, !.res = res]

hasRole(role, account) == account \in roles[role]

\* the store as its constructor leaves it; ids are the documentIds that
\* the mappings are followed for
StoreStorage(admin, ids) ==
    /\ roles = [r \in StoreRoles |-> {admin}]
    /\ meta = [d \in ids |-> EmptyMeta]
    /\ signedAt = [d \in ids |-> [a \in Address |-> 0]]
    /\ events = {}

StoreConstructor(admin) == StoreStorage(admin, DocumentIds)

RegistryStorage(admin, ids) ==
    /\ registryRoles = [r \in {DEFAULT_ADMIN_ROLE, REGISTRY_ADMIN_ROLE} |-> {admin}]
    /\ allowedSignerForDocument = [d \in ids |-> [a \in Address |-> FALSE]]
    /\ registry = [allowedIssuer |-> {}, allowedSigner |-> {},
                   allowCall |-> {},
                   requiredSignerCount |-> [t \in DocumentTypes |-> 0]]

RegistryConstructor(admin) == RegistryStorage(admin, DocumentIds)

\* a store that no account holds a role in
NoRoles == [r \in StoreRoles |-> {}]

\* a store without documents: every slot of a mapping reads as zero
NoDocuments(ids) ==
    [meta |-> [d \in ids |-> EmptyMeta],
     signedAt |-> [d \in ids |-> [a \in Address |-> 0]]]

FactoryConstructor(admin) ==
    [roles |-> [r \in {DEFAULT_ADMIN_ROLE, FACTORY_ADMIN_ROLE} |-> {admin}],
     organisationAddress |-> [o \in OrganisationIds |-> ZeroAddress],
     organisationStore |-> [s \in Stores |-> Zero32],
     allStores |-> <<>>]

\* slip: the reverse entry organisationStore[store] is not written
createdNoReverseEntry(f, organisationId, store) ==
    [f EXCEPT !.organisationAddress[organisationId] = store,
              !.allStores = Append(@, store)]

\* the writes of createStore to the factory's storage
created(f, organisationId, store) ==
    [f EXCEPT !.organisationAddress[organisationId] = store,
              !.organisationStore[store] = organisationId,
              !.allStores = Append(@, store)]

\* the deployment: registry, factory, and the first store created through
\* the factory for storeAdmin
FactoryDeployment(admin) ==
    /\ factory = created(FactoryConstructor(admin), OrganisationId, TheStore)
    /\ deployed = [s \in {} |-> NoRoles]
    /\ deployedDocuments = [s \in {} |-> NoDocuments(DocumentIds)]

Deployment(admin, storeAdmin) ==
    /\ RegistryConstructor(admin)
    /\ StoreConstructor(storeAdmin)
    /\ FactoryDeployment(admin)

Init ==
    /\ Deployment("admin", "storeAdmin")
    /\ now = 1
    /\ pending = <<>>
    /\ last = NoCall
    /\ OffLedgerInit

\* ------------------------------------------------------------------ issue
\* slip: the guard is written as "not currently issued", so a revoked
\* documentId can be issued again
issueResultReissueRevoked(caller, documentId) ==
    IF ~hasRole(ISSUER_ROLE, caller) THEN MissingRole
    ELSE IF meta[documentId].state = "Issued" THEN AlreadyExists
    ELSE OK

\* slip: the existence guard is left out
issueResultNoStateCheck(caller, documentId) ==
    IF ~hasRole(ISSUER_ROLE, caller) THEN MissingRole ELSE OK

\* onlyRole(ISSUER_ROLE) runs before the body's require
issueResult(caller, documentId) ==
    IF ~hasRole(ISSUER_ROLE, caller) THEN MissingRole
    ELSE IF meta[documentId].state # "None" THEN AlreadyExists
    ELSE OK

\* slip: issuedAt is left at zero
issueEffectNoIssuedAt(caller, documentId, documentHash, documentType) ==
    IF issueResult(caller, documentId) = OK
    THEN [meta EXCEPT ![documentId] =
             DocumentMeta(documentHash, documentType, caller, 0, 0, "Issued")]
    ELSE meta

issueEffect(caller, documentId, documentHash, documentType) ==
    IF issueResult(caller, documentId) = OK
    THEN [meta EXCEPT ![documentId] =
             DocumentMeta(documentHash, documentType, caller, now, 0, "Issued")]
    ELSE meta

issueEvents(caller, documentId, documentHash, documentType) ==
    IF issueResult(caller, documentId) = OK
    THEN events \cup {DocumentIssued(documentId, documentType, caller, documentHash)}
    ELSE events

issueCall(caller, documentId, documentHash, documentType) ==
    [Call("issue", caller, documentId, issueResult(caller, documentId))
       EXCEPT !.documentHash = documentHash, !.documentType = documentType]

issue(caller, documentId, documentHash, documentType) ==
    /\ meta' = issueEffect(caller, documentId, documentHash, documentType)
    /\ events' = issueEvents(caller, documentId, documentHash, documentType)
    /\ last' = issueCall(caller, documentId, documentHash, documentType)
    /\ UNCHANGED <<signedAt, roles, allowedSignerForDocument, registryRoles,
                   now, pending, offLedger,
                   governance>>

\* ------------------------------------------------------------------- sign
\* slip: the 'Document already signed' guard is left out
signResultNoAlreadySigned(caller, documentId) ==
    IF ~hasRole(SIGNER_ROLE, caller) THEN MissingRole
    ELSE IF ~(meta[documentId].state \in {"Issued", "Signed"}) THEN NotSignable
    ELSE IF ~allowedSignerForDocument[documentId][caller] THEN NotAllowed
    ELSE IF meta[documentId].state \in {"None", "Revoked"} THEN NotSignable
    ELSE OK

\* slip: the state guards only test that the document exists
signResultSignsRevoked(caller, documentId) ==
    IF ~hasRole(SIGNER_ROLE, caller) THEN MissingRole
    ELSE IF meta[documentId].state = "None" THEN NotSignable
    ELSE IF ~allowedSignerForDocument[documentId][caller] THEN NotAllowed
    ELSE IF signedAt[documentId][caller] # 0 THEN AlreadySigned
    ELSE OK

\* slip: the registry is not consulted
signResultNoWhitelist(caller, documentId) ==
    IF ~hasRole(SIGNER_ROLE, caller) THEN MissingRole
    ELSE IF ~(meta[documentId].state \in {"Issued", "Signed"}) THEN NotSignable
    ELSE IF signedAt[documentId][caller] # 0 THEN AlreadySigned
    ELSE IF meta[documentId].state \in {"None", "Revoked"} THEN NotSignable
    ELSE OK

\* slip: a signer must also be whitelisted for the type of the document
signResultTypeWhitelist(caller, documentId) ==
    IF ~hasRole(SIGNER_ROLE, caller) THEN MissingRole
    ELSE IF ~(meta[documentId].state \in {"Issued", "Signed"}) THEN NotSignable
    ELSE IF \/ ~allowedSignerForDocument[documentId][caller]
            \/ <<meta[documentId].documentType, caller>>
                   \notin registry.allowedSigner
    THEN NotAllowed
    ELSE IF signedAt[documentId][caller] # 0 THEN AlreadySigned
    ELSE OK

\* the last test is the source's check after the write; when it fires the
\* revert rolls the write back
signResult(caller, documentId) ==
    IF ~hasRole(SIGNER_ROLE, caller) THEN MissingRole
    ELSE IF ~(meta[documentId].state \in {"Issued", "Signed"}) THEN NotSignable
    ELSE IF ~allowedSignerForDocument[documentId][caller] THEN NotAllowed
    ELSE IF signedAt[documentId][caller] # 0 THEN AlreadySigned
    ELSE IF meta[documentId].state \in {"None", "Revoked"} THEN NotSignable
    ELSE OK

\* slip: the attestation is stamped on every document of the store
signEffectStampsAll(caller, documentId) ==
    IF signResult(caller, documentId) = OK
    THEN [d \in DOMAIN signedAt |-> [signedAt[d] EXCEPT ![caller] = now]]
    ELSE signedAt

\* slip: the write that precedes the last require survives its revert
signEffectKeptOnRevert(caller, documentId) ==
    IF signResult(caller, documentId) \in {OK, AlreadySigned}
    THEN [signedAt EXCEPT ![documentId][caller] = now]
    ELSE signedAt

signEffect(caller, documentId) ==
    IF signResult(caller, documentId) = OK
    THEN [signedAt EXCEPT ![documentId][caller] = now]
    ELSE signedAt

\* slip: a successful attestation moves the document to state Signed
signMetaMarksSigned(caller, documentId) ==
    IF signResult(caller, documentId) = OK
    THEN [meta EXCEPT ![documentId].state = "Signed"]
    ELSE meta

\* sign reads _documents[documentId] and never writes it
signMeta(caller, documentId) == meta

sign(caller, documentId) ==
    /\ meta' = signMeta(caller, documentId)
    /\ signedAt' = signEffect(caller, documentId)
    /\ events' = IF signResult(caller, documentId) = OK
                 THEN events \cup {DocumentSigned(documentId, caller)}
                 ELSE events
    /\ last' = Call("sign", caller, documentId, signResult(caller, documentId))
    /\ UNCHANGED <<roles, allowedSignerForDocument, registryRoles,
                   now, pending, offLedger,
                   governance>>

\* ----------------------------------------------------------------- revoke
\* slip: the state guard is left out
revokeResultAnyState(caller, documentId) ==
    IF ~hasRole(REVOKER_ROLE, caller) THEN MissingRole ELSE OK

\* slip: the onlyRole modifier is left out
revokeResultNoRole(caller, documentId) ==
    IF ~(meta[documentId].state \in {"Issued", "Signed"}) THEN NotRevocable
    ELSE OK

revokeResult(caller, documentId) ==
    IF ~hasRole(REVOKER_ROLE, caller) THEN MissingRole
    ELSE IF ~(meta[documentId].state \in {"Issued", "Signed"}) THEN NotRevocable
    ELSE OK

\* slip: the revocation rewrites the whole record
revokeEffectClearsRecord(caller, documentId) ==
    IF revokeResult(caller, documentId) = OK
    THEN [meta EXCEPT ![documentId] =
             DocumentMeta(Zero32, Zero32, ZeroAddress, 0, now, "Revoked")]
    ELSE meta

\* slip: revokedAt is not written
revokeEffectNoRevokedAt(caller, documentId) ==
    IF revokeResult(caller, documentId) = OK
    THEN [meta EXCEPT ![documentId].state = "Revoked"]
    ELSE meta

\* slip: the revocation is written to every issued document of the store
revokeEffectRevokesAll(caller, documentId) ==
    IF revokeResult(caller, documentId) = OK
    THEN [d \in DOMAIN meta |->
            IF meta[d].state = "Issued"
            THEN [meta[d] EXCEPT !.state = "Revoked", !.revokedAt = now]
            ELSE meta[d]]
    ELSE meta

revokeEffect(caller, documentId) ==
    IF revokeResult(caller, documentId) = OK
    THEN [meta EXCEPT ![documentId].state = "Revoked",
                      ![documentId].revokedAt = now]
    ELSE meta

revoke(caller, documentId, reason) ==
    /\ meta' = revokeEffect(caller, documentId)
    /\ events' = IF revokeResult(caller, documentId) = OK
                 THEN events \cup {DocumentRevoked(documentId, caller, reason)}
                 ELSE events
    /\ last' = Call("revoke", caller, documentId, revokeResult(caller, documentId))
    /\ UNCHANGED <<signedAt, roles, allowedSignerForDocument, registryRoles,
                   now, pending, offLedger,
                   governance>>

\* --------------------------------------------------------------- isIssued
\* slip: the view tests existence only
isIssuedNotNone(documentId) == meta[documentId].state # "None"

isIssued(documentId) == meta[documentId].state = "Issued"

\* a view call: no caller-dependent behaviour, no revert, no write
isIssuedCall(documentId) ==
    /\ last' = [Call("isIssued", ZeroAddress, documentId, OK)
                  EXCEPT !.ret = isIssued(documentId)]
    /\ UNCHANGED <<meta, signedAt, roles, allowedSignerForDocument,
                   registryRoles, events, now, pending, offLedger,
                   governance>>

\* --------------------------------------------------------------- isSigned
\* slip: the view answers for any signer instead of for msg.sender
isSignedByAnyone(caller, documentId) ==
    \E a \in Address : signedAt[documentId][a] > 0

\* the view reads the attestation of msg.sender
isSigned(caller, documentId) == signedAt[documentId][caller] > 0

isSignedCall(caller, documentId) ==
    /\ last' = [Call("isSigned", caller, documentId, OK)
                  EXCEPT !.ret = isSigned(caller, documentId)]
    /\ UNCHANGED <<meta, signedAt, roles, allowedSignerForDocument,
                   registryRoles, events, now, pending, offLedger,
                   governance>>

\* ------------------------------------------------- AccessControl of store
\* grantRole / revokeRole are onlyRole(getRoleAdmin(role)); the store never
\* changes a role's admin, so that is DEFAULT_ADMIN_ROLE
roleAdminResult(caller) ==
    IF ~hasRole(DEFAULT_ADMIN_ROLE, caller) THEN MissingRole ELSE OK

grantRole(caller, role, account) ==
    /\ roles' = IF roleAdminResult(caller) = OK
                THEN [roles EXCEPT ![role] = @ \cup {account}]
                ELSE roles
    /\ last' = Call("grantRole", caller, Zero32, roleAdminResult(caller))
    /\ UNCHANGED <<meta, signedAt, allowedSignerForDocument, registryRoles,
                   events, now, pending, offLedger,
                   governance>>

revokeRole(caller, role, account) ==
    /\ roles' = IF roleAdminResult(caller) = OK
                THEN [roles EXCEPT ![role] = @ \ {account}]
                ELSE roles
    /\ last' = Call("revokeRole", caller, Zero32, roleAdminResult(caller))
    /\ UNCHANGED <<meta, signedAt, allowedSignerForDocument, registryRoles,
                   events, now, pending, offLedger,
                   governance>>

\* --------------------------------------------------------------- registry
setSignerForDocumentResult(caller) ==
    IF caller \notin registryRoles[REGISTRY_ADMIN_ROLE] THEN MissingRole ELSE OK

\* slip: an entry that was enabled once stays enabled
setSignerForDocumentEffectSticky(caller, documentId, signer, active) ==
    IF setSignerForDocumentResult(caller) = OK
    THEN [allowedSignerForDocument EXCEPT ![documentId][signer] = @ \/ active]
    ELSE allowedSignerForDocument

\* the entry is overwritten with the value of this call
setSignerForDocumentEffect(caller, documentId, signer, active) ==
    IF setSignerForDocumentResult(caller) = OK
    THEN [allowedSignerForDocument EXCEPT ![documentId][signer] = active]
    ELSE allowedSignerForDocument

setSignerForDocument(caller, documentId, signer, active) ==
    /\ allowedSignerForDocument' =
          setSignerForDocumentEffect(caller, documentId, signer, active)
    /\ last' = Call("setSignerForDocument", caller, documentId,
                    setSignerForDocumentResult(caller))
    /\ UNCHANGED <<meta, signedAt, roles, registryRoles, events, now, pending,
                   offLedger,
                   governance>>

\* ------------------------------------------------------------- the ledger
\* a later block: block.timestamp never decreases.  The store keeps
\* uint64(block.timestamp); the cast changes nothing below 2^64 seconds.
Tick ==
    /\ now < MaxTime
    /\ now' = now + 1
    /\ UNCHANGED <<meta, signedAt, roles, allowedSignerForDocument,
                   registryRoles, events, pending, last, offLedger,
                   governance>>

Next ==
    \/ \E c \in StoreCallers, d \in DocumentIds, h \in DocumentHashes,
          t \in DocumentTypes : issue(c, d, h, t)
    \/ \E c \in StoreCallers, d \in DocumentIds : sign(c, d)
    \/ \E c \in StoreCallers, d \in DocumentIds, r \in Reasons : revoke(c, d, r)
    \/ \E d \in DocumentIds : isIssuedCall(d)
    \/ \E c \in StoreCallers, d \in DocumentIds : isSignedCall(c, d)
    \/ \E c \in StoreCallers, r \in OperationalRoles, a \in RoleTargets :
          grantRole(c, r, a)
    \/ \E c \in StoreCallers, r \in OperationalRoles, a \in RoleTargets :
          revokeRole(c, r, a)
    \/ \E c \in RegistryCallers, d \in DocumentIds, s \in SignerTargets,
          b \in BOOLEAN : setSignerForDocument(c, d, s, b)
    \/ Tick

Spec == Init /\ [][Next]_vars

\* ------------------------------------------- issue calls sent concurrently
\* A client sends its issue transaction and waits for the receipt; the
\* ledger mines the transactions in flight one at a time, in any order.
Tx(caller, documentId, documentHash, documentType, status) ==
    [caller |-> caller, documentId |-> documentId,
     documentHash |-> documentHash, documentType |-> documentType,
     status |-> status]

sendIssue(caller, documentId, documentHash, documentType) ==
    /\ Len(pending) < MaxPending
    /\ pending' = Append(pending,
                     Tx(caller, documentId, documentHash, documentType, "pending"))
    /\ UNCHANGED <<meta, signedAt, roles, allowedSignerForDocument,
                   registryRoles, events, now, last, offLedger,
                   governance>>

mineIssue(i) ==
    /\ pending[i].status = "pending"
    /\ LET tx == pending[i] IN
         /\ meta' = issueEffect(tx.caller, tx.documentId,
                                tx.documentHash, tx.documentType)
         /\ events' = issueEvents(tx.caller, tx.documentId,
                                  tx.documentHash, tx.documentType)
         /\ last' = issueCall(tx.caller, tx.documentId,
                              tx.documentHash, tx.documentType)
         /\ pending' = [pending EXCEPT
                          ![i].status = issueResult(tx.caller, tx.documentId)]
    /\ UNCHANGED <<signedAt, roles, allowedSignerForDocument, registryRoles,
                   now, offLedger,
                   governance>>

NextConc ==
    \/ \E c \in StoreCallers, d \in DocumentIds, h \in DocumentHashes,
          t \in DocumentTypes : sendIssue(c, d, h, t)
    \/ \E i \in 1..Len(pending) : mineIssue(i)
    \/ \E c \in StoreCallers, d \in DocumentIds, r \in Reasons : revoke(c, d, r)
    \/ \E c \in StoreCallers, r \in {ISSUER_ROLE, REVOKER_ROLE},
          a \in RoleTargets : grantRole(c, r, a)
    \/ \E c \in StoreCallers, r \in {ISSUER_ROLE, REVOKER_ROLE},
          a \in RoleTargets : revokeRole(c, r, a)
    \/ Tick

SpecConc == Init /\ [][NextConc]_vars

\* ========================================================== the claims ====

\* A step is a call of issue / sign / revoke exactly when the action holds
\* for the arguments that the step records in last.
issueStep ==
    /\ last'.op = "issue"
    /\ issue(last'.caller, last'.documentId, last'.documentHash,
             last'.documentType)

signStep ==
    /\ last'.op = "sign"
    /\ sign(last'.caller, last'.documentId)

revokeStep ==
    /\ last'.op = "revoke"
    /\ \E r \in Reasons : revoke(last'.caller, last'.documentId, r)

\* C1 as claimed: an issue succeeds only on a document in state None and
\* then records Issued, the root, the type, the caller and the time; every
\* issue of a documentId that was already issued, whoever calls it, fails
\* with 'Document Already Exists'.
C1_AsClaimed ==
    [][issueStep =>
        LET c == last'.caller
            d == last'.documentId
            h == last'.documentHash
            t == last'.documentType
        IN
          /\ (last'.res = OK =>
                /\ meta[d].state = "None"
                /\ meta'[d] = DocumentMeta(h, t, c, now, 0, "Issued"))
          /\ (emitted("DocumentIssued", d) => last'.res = AlreadyExists)]_vars

\* C1 amended: an issue succeeds only on a document in state None and then
\* records Issued, the root, the type, the caller and the time; every later
\* issue of the same documentId fails: with 'Document Already Exists' when
\* the caller holds ISSUER_ROLE, and with the missing-role revert of
\* onlyRole, which runs first, when the caller does not hold it.
C1_IssueOnce ==
    [][issueStep =>
        LET c == last'.caller
            d == last'.documentId
            h == last'.documentHash
            t == last'.documentType
        IN
          /\ (last'.res = OK =>
                /\ meta[d].state = "None"
                /\ meta'[d] = DocumentMeta(h, t, c, now, 0, "Issued"))
          /\ (emitted("DocumentIssued", d) =>
                last'.res = IF hasRole(ISSUER_ROLE, c)
                            THEN AlreadyExists ELSE MissingRole)]_vars

\* a revoked document is issued again, by another issuer with another root,
\* and the call fails with 'Document Already Exists'
C1_Witness ==
    \E d \in DocumentIds :
        /\ last.op = "issue" /\ last.documentId = d
        /\ last.res = AlreadyExists
        /\ meta[d].state = "Revoked"
        /\ last.caller # meta[d].issuer
        /\ last.documentHash # meta[d].documentHash

\* C2: once a document has been issued no step changes its documentHash,
\* documentType, issuer or issuedAt or removes the record, and the only step
\* that writes the record of a document not yet issued is a successful issue,
\* which writes its own arguments, its caller and the current time.
C2_RecordImmutable ==
    [][\A d \in DocumentIds :
        /\ (emitted("DocumentIssued", d) =>
              /\ meta'[d].documentHash = meta[d].documentHash
              /\ meta'[d].documentType = meta[d].documentType
              /\ meta'[d].issuer = meta[d].issuer
              /\ meta'[d].issuedAt = meta[d].issuedAt
              /\ meta'[d].state # "None"
              /\ meta'[d].documentHash # Zero32)
        /\ (~emitted("DocumentIssued", d) /\ meta'[d] # meta[d] =>
              /\ last'.op = "issue" /\ last'.res = OK /\ last'.documentId = d
              /\ meta'[d].documentHash = last'.documentHash
              /\ meta'[d].documentType = last'.documentType
              /\ meta'[d].issuer = last'.caller
              /\ meta'[d].issuedAt = now)]_vars

\* a document issued at time 1, signed and revoked later, on which an issue
\* with another root has just been tried
C2_Witness ==
    \E d \in DocumentIds, s \in Address :
        /\ meta[d].state = "Revoked"
        /\ meta[d].issuedAt < meta[d].revokedAt
        /\ signedAt[d][s] # 0
        /\ last.op = "issue" /\ last.documentId = d
        /\ last.documentHash # meta[d].documentHash

\* C3: the lifecycle state of a document changes only from None to Issued
\* and from Issued to Revoked; so Revoked is never left and None is never
\* entered again.
C3_StateForward ==
    [][\A d \in DocumentIds :
        meta'[d].state # meta[d].state =>
            <<meta[d].state, meta'[d].state>> \in
                {<<"None", "Issued">>, <<"Issued", "Revoked">>}]_vars

\* a revoked document on which a sign has just been refused
C3_Witness ==
    \E d \in DocumentIds :
        /\ meta[d].state = "Revoked"
        /\ last.op = "sign" /\ last.documentId = d /\ last.res = NotSignable

\* C4: a non-zero signedAt[documentId][signer] is never changed by any step
\* (a whitelist removal, a role revocation and the revocation of the
\* document included); a sign by a signer whose timestamp is set never
\* succeeds, and it fails with 'Document already signed' when the signer
\* still passes the guards that come first (role, Issued, whitelisted).
C4_SignedAtImmutable ==
    [][/\ \A d \in DocumentIds, s \in Address :
            signedAt[d][s] # 0 => signedAt'[d][s] = signedAt[d][s]
       /\ signStep /\ signedAt[last'.documentId][last'.caller] # 0 =>
            LET c == last'.caller
                d == last'.documentId
            IN /\ last'.res # OK
               /\ (/\ hasRole(SIGNER_ROLE, c)
                   /\ meta[d].state = "Issued"
                   /\ allowedSignerForDocument[d][c]
                   => last'.res = AlreadySigned)]_vars

\* alice signed earlier; since then she lost the whitelist entry and the
\* role and the document was revoked; her timestamp is still the old one
\* and her new sign has just been refused
C4_Witness ==
    \E d \in DocumentIds :
        /\ signedAt[d]["alice"] # 0 /\ signedAt[d]["alice"] < now
        /\ ~allowedSignerForDocument[d]["alice"]
        /\ ~hasRole(SIGNER_ROLE, "alice")
        /\ meta[d].state = "Revoked"
        /\ last.op = "sign" /\ last.caller = "alice" /\ last.documentId = d
        /\ last.res # OK

\* C5 as claimed: a sign succeeds only on an Issued document, and on a None
\* or Revoked document it fails with 'Document not signable' for every
\* caller.
C5_AsClaimed ==
    [][signStep =>
        LET c == last'.caller
            d == last'.documentId
        IN
          /\ (last'.res = OK => meta[d].state = "Issued")
          /\ (meta[d].state \in {"None", "Revoked"} =>
                last'.res = NotSignable)]_vars

\* C5 amended: a sign succeeds only on an Issued document; on a None or
\* Revoked document it fails for every caller: with 'Document not signable'
\* for every caller that holds SIGNER_ROLE, whitelisted or not, and with the
\* missing-role revert of onlyRole for a caller that does not hold it.
C5_SignOnlyIssued ==
    [][signStep =>
        LET c == last'.caller
            d == last'.documentId
        IN
          /\ (last'.res = OK => meta[d].state = "Issued")
          /\ (meta[d].state \in {"None", "Revoked"} =>
                last'.res = IF hasRole(SIGNER_ROLE, c)
                            THEN NotSignable ELSE MissingRole)]_vars

\* a signer with the role and the whitelist entry has just been refused on
\* a document that was never issued
C5_Witness ==
    \E d \in DocumentIds :
        /\ meta[d].state = "None"
        /\ last.op = "sign" /\ last.documentId = d /\ last.res = NotSignable
        /\ hasRole(SIGNER_ROLE, last.caller)
        /\ allowedSignerForDocument[d][last.caller]

\* C6: a sign succeeds only if its caller holds SIGNER_ROLE and is
\* whitelisted for the document when it is called; on an Issued document a
\* role holder that is not whitelisted fails with 'Signer not allowed', and
\* a whitelisted caller without the role fails.
C6_BothGates ==
    [][signStep =>
        LET c == last'.caller
            d == last'.documentId
        IN
          /\ (last'.res = OK =>
                hasRole(SIGNER_ROLE, c) /\ allowedSignerForDocument[d][c])
          /\ (/\ hasRole(SIGNER_ROLE, c)
              /\ ~allowedSignerForDocument[d][c]
              /\ meta[d].state = "Issued"
              => last'.res = NotAllowed)
          /\ (~hasRole(SIGNER_ROLE, c) /\ allowedSignerForDocument[d][c] =>
                last'.res = MissingRole)]_vars

\* on an Issued document a role holder without whitelist entry has just
\* been refused, while a whitelisted account without the role has not signed
C6_Witness ==
    \E d \in DocumentIds :
        /\ meta[d].state = "Issued"
        /\ last.op = "sign" /\ last.documentId = d /\ last.res = NotAllowed
        /\ hasRole(SIGNER_ROLE, last.caller)
        /\ allowedSignerForDocument[d]["alice"]
        /\ ~hasRole(SIGNER_ROLE, "alice")
        /\ signedAt[d]["alice"] = 0

\* C7: a revoke succeeds only on an Issued document and then changes exactly
\* state to Revoked and revokedAt to the current time; a revoke by a holder
\* of REVOKER_ROLE on a None or Revoked document fails with 'Document not
\* revocable'.
C7_RevokeOnlyIssued ==
    [][revokeStep =>
        LET c == last'.caller
            d == last'.documentId
        IN
          /\ (last'.res = OK =>
                /\ meta[d].state = "Issued"
                /\ meta'[d] = [meta[d] EXCEPT !.state = "Revoked",
                                              !.revokedAt = now])
          /\ (meta[d].state \in {"None", "Revoked"} => last'.res # OK)
          /\ (meta[d].state \in {"None", "Revoked"} /\ hasRole(REVOKER_ROLE, c)
                => last'.res = NotRevocable)]_vars

\* a second revoke, in a later block, has just been refused and revokedAt
\* is still the time of the first
C7_Witness ==
    \E d \in DocumentIds :
        /\ meta[d].state = "Revoked"
        /\ meta[d].revokedAt < now
        /\ last.op = "revoke" /\ last.documentId = d
        /\ last.res = NotRevocable

\* C8: a successful issue, sign or revoke was called by an account that
\* held ISSUER_ROLE, SIGNER_ROLE or REVOKER_ROLE respectively when it was
\* called; a caller without that role fails whatever other roles it holds.
C8_RoleGated ==
    [][/\ issueStep /\ last'.res = OK => hasRole(ISSUER_ROLE, last'.caller)
       /\ signStep /\ last'.res = OK => hasRole(SIGNER_ROLE, last'.caller)
       /\ revokeStep /\ last'.res = OK => hasRole(REVOKER_ROLE, last'.caller)]_vars

\* alice holds ISSUER_ROLE only; she issued the document and is whitelisted
\* for it, and her revoke has just been refused for the missing role
C8_Witness ==
    \E d \in DocumentIds :
        /\ hasRole(ISSUER_ROLE, "alice")
        /\ ~hasRole(SIGNER_ROLE, "alice") /\ ~hasRole(REVOKER_ROLE, "alice")
        /\ meta[d].issuer = "alice" /\ meta[d].state = "Issued"
        /\ allowedSignerForDocument[d]["alice"]
        /\ last.op = "revoke" /\ last.caller = "alice" /\ last.documentId = d
        /\ last.res = MissingRole

\* C9: isIssued(documentId) is true exactly when the store has emitted
\* DocumentIssued and not DocumentRevoked for the document (so false before
\* the issue, true after it and after any signs, false after the revoke),
\* and a call of it never reverts and returns that value.
C9_IsIssued ==
    \A d \in DocumentIds :
        LET live == emitted("DocumentIssued", d) /\ ~emitted("DocumentRevoked", d)
        IN /\ isIssued(d) = live
           /\ (last.op = "isIssued" /\ last.documentId = d =>
                 last.res = OK /\ last.ret = live)

\* the view has just returned true for a document that two accounts signed
C9_Witness ==
    \E d \in DocumentIds :
        /\ last.op = "isIssued" /\ last.documentId = d /\ last.ret
        /\ signedAt[d]["alice"] # 0 /\ signedAt[d]["storeAdmin"] # 0

\* C10: of the issue transactions for one documentId that were in flight
\* together and were mined with their caller holding ISSUER_ROLE, in
\* whatever order the ledger took them, exactly one succeeded and every
\* other failed with 'Document Already Exists', and the recorded
\* documentHash and issuer are those of the one that succeeded.
mined(d) ==
    {i \in 1..Len(pending) :
        pending[i].documentId = d /\ pending[i].status \in {OK, AlreadyExists}}

C10_OneWinner ==
    \A d \in DocumentIds :
        mined(d) # {} =>
          \E w \in mined(d) :
            /\ pending[w].status = OK
            /\ \A i \in mined(d) \ {w} : pending[i].status = AlreadyExists
            /\ meta[d].documentHash = pending[w].documentHash
            /\ meta[d].issuer = pending[w].caller

\* two transactions of different callers with different roots were mined in
\* the reverse of the order they were sent in: the second won
C10_Witness ==
    /\ Len(pending) >= 2
    /\ pending[1].documentId = pending[2].documentId
    /\ pending[1].caller # pending[2].caller
    /\ pending[1].documentHash # pending[2].documentHash
    /\ pending[1].status = AlreadyExists
    /\ pending[2].status = OK

\* ======================================= the salted Merkle commitment ====

\* ------------------------------------------------------------ keccak-256
\* The hash is collision free: the digits of a hash are a code of what was
\* hashed.  The hash of a text is one number, spread over 0..HashModulus-1
\* by a bijection so that the order of the hashes is not the order of the
\* texts; the hash of two concatenated hashes is -1 followed by both; the
\* hash of a text that ends in hash digits is -2, the number of the text
\* and the digits.
Tokens == <<"u1", "u2", "u3", "u4", "u5", "u6",
            "string", "integer", "number", "boolean", "null",
            "1", "1.5", "x", "y", "true", "false", "0x", "undefined">>
Base == Len(Tokens) + 1
HashModulus == 16381
HashMultiplier == 7919

tokenCode(t) == CHOOSE i \in 1..Len(Tokens) : Tokens[i] = t

RECURSIVE textCode(_)
textCode(s) ==
    IF s = <<>> THEN 0 ELSE tokenCode(Head(s)) + Base * textCode(Tail(s))

\* ethers.keccak256(ethers.toUtf8Bytes(str)): a 0x-prefixed hex string
keccak256Utf8(str) ==
    LET number == (textCode(str.s) * HashMultiplier) % HashModulus IN
    HexString(<<"0x">>, IF str.hex = <<>> THEN <<number>>
                        ELSE <<-2, number>> \o str.hex)

\* what ethers.concat accepts: 0x-prefixed hex data
isBytesLike(v) ==
    v.kind = "prim" /\ v.js = "string" /\ v.s = <<"0x">> /\ v.hex # <<>>

\* ethers.keccak256(ethers.concat([left, right]))
keccak256Concat(left, right) ==
    HexString(<<"0x">>, <<-1>> \o left.hex \o right.hex)

strip0x(hex) ==
    IF hex.s # <<>> /\ Head(hex.s) = "0x" THEN [hex EXCEPT !.s = Tail(@)]
    ELSE hex

\* a < b on two hex strings of hashes: digit by digit
RECURSIVE digitsLess(_, _)
digitsLess(a, b) ==
    IF a = <<>> THEN b # <<>>
    ELSE IF b = <<>> THEN FALSE
    ELSE IF Head(a) # Head(b) THEN Head(a) < Head(b)
    ELSE digitsLess(Tail(a), Tail(b))

hexLess(a, b) == digitsLess(a.hex, b.hex)

\* ------------------------------------------------------ merkle-root helper
isArray(v) == v.kind = "array"
isPlainObject(v) == v.kind = "object"

asTypeTag(v) ==
    IF v.js = "string" THEN "string"
    ELSE IF v.js = "number" THEN (IF v.n % 10 = 0 THEN "integer" ELSE "number")
    ELSE IF v.js = "boolean" THEN "boolean"
    ELSE IF v.js = "null" THEN "null"
    ELSE "string"

NumberText(tenths) == CASE tenths = 10 -> "1" [] tenths = 15 -> "1.5"

\* String(node) on a primitive
String(node) ==
    IF node.js = "string" THEN node
    ELSE IF node.js = "number" THEN StringValue(<<NumberText(node.n)>>)
    ELSE IF node.js = "boolean"
         THEN StringValue(<<IF node.n = 1 THEN "true" ELSE "false">>)
    ELSE IF node.js = "null" THEN StringValue(<<"null">>)
    ELSE StringValue(<<"undefined">>)

\* Object.keys(node).sort(): the keys the documents use, in that order
KeyOrder == <<"a", "b">>
keyLess(j, k) ==
    (CHOOSE i \in 1..Len(KeyOrder) : KeyOrder[i] = j)
      < (CHOOSE i \in 1..Len(KeyOrder) : KeyOrder[i] = k)
\* slip: the keys are taken in insertion order
sortedKeysUnsorted(node) == node.keys

sortedKeys(node) == SortSeq(node.keys, keyLess)
valueOf(node, k) ==
    node.items[CHOOSE i \in 1..Len(node.keys) : node.keys[i] = k]

\* the primitives below a node: each takes one randomUUID() when salted
RECURSIVE primitives(_)
RECURSIVE primitivesIn(_, _)
primitives(node) ==
    IF node.kind = "prim" THEN 1 ELSE primitivesIn(node.items, Len(node.items))
primitivesIn(items, upTo) ==
    IF upTo = 0 THEN 0
    ELSE primitivesIn(items, upTo - 1) + primitives(items[upTo])

\* saltDocument: uuids are the values that the calls of randomUUID() return,
\* in the order of the calls; a primitive becomes the string uuid:type:value
RECURSIVE transform(_, _)
RECURSIVE transformItems(_, _)
transform(node, uuids) ==
    IF isArray(node) THEN ArrayValue(transformItems(node.items, uuids))
    ELSE IF isPlainObject(node)
    THEN LET ks == sortedKeys(node) IN
         ObjectValue(ks, transformItems([i \in 1..Len(ks) |-> valueOf(node, ks[i])],
                                        uuids))
    ELSE LET tag == asTypeTag(node)
             val == String(node)
             salt == Head(uuids)
         IN  [val EXCEPT !.s = <<salt, tag>> \o @]
transformItems(items, uuids) ==
    [i \in 1..Len(items) |->
        transform(items[i], SubSeq(uuids, primitivesIn(items, i - 1) + 1,
                                   primitivesIn(items, i)))]

saltDocument(input, uuids) == transform(input, uuids)

\* buildLeaves: the hash of every primitive, keys and positions ignored,
\* then sorted
RECURSIVE visit(_)
RECURSIVE visitItems(_, _)
visit(node) ==
    IF isArray(node) \/ isPlainObject(node)
    THEN visitItems(node.items, Len(node.items))
    ELSE <<keccak256Utf8(String(node))>>
visitItems(items, upTo) ==
    IF upTo = 0 THEN <<>>
    ELSE visitItems(items, upTo - 1) \o visit(items[upTo])

\* slip: the leaves are left in traversal order
buildLeavesUnsorted(saltedDoc) == visit(saltedDoc)

buildLeaves(saltedDoc) == SortSeq(visit(saltedDoc), hexLess)

\* one level of the tree: adjacent pairs, the last node with itself when
\* the level is odd
\* slip: an odd last node is promoted to the next level unpaired
RECURSIVE nextLevelPromotesOdd(_)
nextLevelPromotesOdd(level) ==
    IF level = <<>> THEN <<>>
    ELSE IF Len(level) = 1 THEN <<level[1]>>
    ELSE <<keccak256Concat(level[1], level[2])>>
           \o nextLevelPromotesOdd(SubSeq(level, 3, Len(level)))

RECURSIVE nextLevel(_)
nextLevel(level) ==
    IF level = <<>> THEN <<>>
    ELSE IF Len(level) = 1 THEN <<keccak256Concat(level[1], level[1])>>
    ELSE <<keccak256Concat(level[1], level[2])>>
           \o nextLevel(SubSeq(level, 3, Len(level)))

RECURSIVE topLevel(_)
topLevel(level) == IF Len(level) <= 1 THEN level ELSE topLevel(nextLevel(level))

\* slip: no special case for an empty leaf list, level[0] is undefined
merkleRootThrowsOnEmpty(input) ==
    LET leaves == IF isArray(input) THEN input.items ELSE buildLeaves(input) IN
    IF Len(leaves) = 0 THEN [threw |-> TRUE, root |-> Undefined]
    ELSE IF \E i \in 1..Len(leaves) :
               ~(leaves[i].kind = "prim" /\ leaves[i].js = "string")
    THEN [threw |-> TRUE, root |-> Undefined]
    ELSE IF Len(leaves) > 1 /\ \E i \in 1..Len(leaves) : ~isBytesLike(leaves[i])
    THEN [threw |-> TRUE, root |-> Undefined]
    ELSE [threw |-> FALSE, root |-> strip0x(topLevel(leaves)[1])]

\* merkleRoot(input): an array is taken to be the leaves themselves, anything
\* else is a document.  It throws when a leaf is not a string (hex(h) calls
\* h.startsWith) and when ethers.concat is given a string that is not hex
\* data.
merkleRoot(input) ==
    LET leaves == IF isArray(input) THEN input.items ELSE buildLeaves(input) IN
    IF Len(leaves) = 0
    THEN [threw |-> FALSE, root |-> strip0x(keccak256Utf8(StringValue(<<>>)))]
    ELSE IF \E i \in 1..Len(leaves) :
               ~(leaves[i].kind = "prim" /\ leaves[i].js = "string")
    THEN [threw |-> TRUE, root |-> Undefined]
    ELSE IF Len(leaves) > 1 /\ \E i \in 1..Len(leaves) : ~isBytesLike(leaves[i])
    THEN [threw |-> TRUE, root |-> Undefined]
    ELSE [threw |-> FALSE, root |-> strip0x(topLevel(leaves)[1])]

\* slip: the root is computed from a second salting of the raw document, in
\* which the salts meet the primitives in the opposite order
wrapDocumentSaltedTwice(rawDocument, uuids) ==
    LET salted == saltDocument(rawDocument, uuids)
        again == saltDocument(rawDocument,
                              [i \in 1..Len(uuids) |-> uuids[Len(uuids) + 1 - i]])
        tree == merkleRoot(again)
    IN  [threw |-> tree.threw,
         data |-> IF tree.threw THEN Undefined ELSE salted,
         merkleRoot |-> tree.root]

\* wrapDocument: data and signature.merkleRoot (targetHash is the same
\* value, type and proof are constants)
wrapDocument(rawDocument, uuids) ==
    LET salted == saltDocument(rawDocument, uuids)
        tree == merkleRoot(salted)
    IN  [threw |-> tree.threw,
         data |-> IF tree.threw THEN Undefined ELSE salted,
         merkleRoot |-> tree.root]

\* ---------------------------------------------------- verify-merkle-root
\* collectWrappedLeaves: the strings of the copy in DFS order; null,
\* undefined, numbers and booleans are passed over
RECURSIVE collectWrappedLeaves(_)
RECURSIVE collectItems(_, _)
collectWrappedLeaves(obj) ==
    IF obj.js \in {"null", "undefined"} THEN <<>>
    ELSE IF isArray(obj) \/ isPlainObject(obj)
    THEN collectItems(obj.items, Len(obj.items))
    ELSE IF obj.js = "string" THEN <<obj>>
    ELSE <<>>
collectItems(items, upTo) ==
    IF upTo = 0 THEN <<>>
    ELSE collectItems(items, upTo - 1) \o collectWrappedLeaves(items[upTo])

leafHash(leafStr) == keccak256Utf8(leafStr)

\* x.slice(2) on a 0x-prefixed hex string
slice2(hex) == [hex EXCEPT !.s = Tail(@)]

merkleRootFromLeafHashes(leafHashes) ==
    IF Len(leafHashes) = 0 THEN slice2(keccak256Utf8(StringValue(<<>>)))
    ELSE LET sortedLeaves == SortSeq(leafHashes, hexLess) IN
         slice2(topLevel(sortedLeaves)[1])

\* what JS takes for false in a condition
falsy(v) ==
    \/ v.js \in {"null", "undefined"}
    \/ v.js = "string" /\ v.s = <<>> /\ v.hex = <<>>
    \/ v.js \in {"number", "boolean"} /\ v.n = 0

MissingData == "Missing data or signature.merkleRoot"
NoLeaves == "No wrapped leaves found"
RootMismatch == "Computed root does not match signature.merkleRoot"

\* verifyWrappedMerkle(wrapped), wrapped being data and signature.merkleRoot.
\* Every string of the model is in lower case, as every hash that ethers
\* returns is, so toLowerCase() finds nothing to change.
verifyWrappedMerkle(wrapped) ==
    IF falsy(wrapped.data) \/ falsy(wrapped.merkleRoot)
    THEN [ok |-> FALSE, reason |-> MissingData,
          computedRoot |-> Undefined, targetRoot |-> Undefined]
    ELSE LET leaves == collectWrappedLeaves(wrapped.data) IN
         IF Len(leaves) = 0
         THEN [ok |-> FALSE, reason |-> NoLeaves,
               computedRoot |-> Undefined, targetRoot |-> Undefined]
         ELSE LET leafHashes == [i \in 1..Len(leaves) |-> leafHash(leaves[i])]
                  root == merkleRootFromLeafHashes(leafHashes)
                  matches == root = wrapped.merkleRoot
              IN  [ok |-> matches,
                   reason |-> IF matches THEN "" ELSE RootMismatch,
                   computedRoot |-> root, targetRoot |-> wrapped.merkleRoot]

\* ================================================== the backend (app.js) ====
\* The issuing user is the admin of the one store (its documentStoreAddress);
\* registryWrite signs as the factory admin; a user's wallet is the account
\* of the same name.
IssuerUser == "storeAdmin"
FactoryAdmin == "admin"
Recipients == {"alice"}
BackendSalts == {"u1", "u2", "u3"}

\* request bodies: {"a": 1, "b": "x"} and {"b": ["x", true], "a": 1}
Bodies ==
    {ObjectValue(<<"a", "b">>, <<NumberValue(10), StringValue(<<"x">>)>>),
     ObjectValue(<<"b", "a">>,
                 <<ArrayValue(<<StringValue(<<"x">>), BooleanValue(TRUE)>>),
                   NumberValue(10)>>)}

\* the sequences of n different values that randomUUID() can return
uuidDraws(pool, n) ==
    {u \in [1..n -> pool] : \A i, j \in 1..n : i # j => u[i] # u[j]}

prefix0x(hex) == [hex EXCEPT !.s = <<"0x">> \o @]

Request(op, documentId) == [NoRequest EXCEPT !.op = op, !.documentId = documentId]
Reply(req, status, error, details) ==
    [req EXCEPT !.status = status, !.error = error, !.details = details]

\* what save() inserts, as far as the collection is looked at: the
\* documentId, the issuerDocStore and the documentHash of the new record
Saved(documentId, issuerDocStore, documentHash) ==
    [documentId |-> documentId, issuerDocStore |-> issuerDocStore,
     documentHash |-> documentHash]

\* ---------------------------------------------------- POST /document/issue
documentIssue(documentId, documentType, body, recipient, isSignable, uuids) ==
    LET req == Request("issue", documentId)
        wrappedDocument == wrapDocument(body, uuids)
        leaves == buildLeaves(wrappedDocument.data)
        documentHash == prefix0x(merkleRoot(ArrayValue(leaves)).root)
        issued == issueResult(IssuerUser, documentId)
        granted == IF isSignable THEN roleAdminResult(IssuerUser) ELSE OK
        listed == IF isSignable /\ granted = OK
                  THEN setSignerForDocumentResult(FactoryAdmin) ELSE granted
        reachesIssue == /\ documents[documentId] = NoRecord
                        /\ ~wrappedDocument.threw
                        /\ ~isIssued(documentId)
    IN
    /\ meta' = IF reachesIssue
               THEN issueEffect(IssuerUser, documentId, documentHash, documentType)
               ELSE meta
    /\ events' = IF reachesIssue
                 THEN issueEvents(IssuerUser, documentId, documentHash, documentType)
                 ELSE events
    /\ roles' = IF reachesIssue /\ issued = OK /\ isSignable /\ granted = OK
                THEN [roles EXCEPT ![SIGNER_ROLE] = @ \cup {recipient}]
                ELSE roles
    /\ allowedSignerForDocument' =
          IF reachesIssue /\ issued = OK /\ isSignable /\ listed = OK
          THEN [allowedSignerForDocument EXCEPT ![documentId][recipient] = TRUE]
          ELSE allowedSignerForDocument
    /\ documents' =
          IF reachesIssue /\ issued = OK /\ listed = OK
          THEN [documents EXCEPT ![documentId] =
                   [documentHash |-> documentHash, rawDocInfo |-> body,
                    wrappedDocInfo |-> [data |-> wrappedDocument.data,
                                        merkleRoot |-> wrappedDocument.merkleRoot]]]
          ELSE documents
    /\ collection' =
          IF reachesIssue /\ issued = OK /\ listed = OK
          THEN Append(collection, Saved(documentId, TheStore, documentHash))
          ELSE collection
    /\ response' =
          IF documents[documentId] # NoRecord
          THEN Reply(req, 400, "Document already exists", "")
          ELSE IF wrappedDocument.threw
          THEN Reply(req, 500, "Failed to issue document", "")
          ELSE IF isIssued(documentId)
          THEN Reply(req, 400, "Document already issued", "")
          ELSE IF issued # OK
          THEN Reply(req, 500, "Failed to issue document", issued)
          ELSE IF listed # OK
          THEN Reply(req, 500, "Failed to issue document", listed)
          ELSE [Reply(req, 200, "", "") EXCEPT
                  !.documentHash = documentHash,
                  !.wrappedDocument = [data |-> wrappedDocument.data,
                                       merkleRoot |-> wrappedDocument.merkleRoot]]
    /\ UNCHANGED <<signedAt, registryRoles, now, pending, last,
                   rawDoc, wrappedDocs, merkleCall, requests,
                   governance>>

\* ----------------------------------------------------- POST /document/sign
documentSign(user, documentId) ==
    LET req == Request("sign", documentId)
        signed == signResult(user, documentId)
        reachesSign == /\ documents[documentId] # NoRecord
                       /\ isIssued(documentId)
                       /\ ~isSigned(user, documentId)
    IN
    /\ signedAt' = IF reachesSign THEN signEffect(user, documentId) ELSE signedAt
    /\ events' = IF reachesSign /\ signed = OK
                 THEN events \cup {DocumentSigned(documentId, user)}
                 ELSE events
    /\ response' =
          IF documents[documentId] = NoRecord
          THEN Reply(req, 404, "Document not found", "")
          ELSE IF ~isIssued(documentId)
          THEN Reply(req, 400, "Document has not been issued yet", "")
          ELSE IF isSigned(user, documentId)
          THEN Reply(req, 400, "Document already signed", "")
          ELSE IF signed # OK
          THEN Reply(req, 500, "Failed to sign document", signed)
          ELSE Reply(req, 200, "", "")
    /\ UNCHANGED <<meta, roles, allowedSignerForDocument, registryRoles, now,
                   pending, last, rawDoc, wrappedDocs, merkleCall,
                   documents, requests, collection,
                   governance>>

\* --------------------------------------------------- POST /document/revoke
documentRevoke(user, documentId, reason) ==
    LET req == Request("revoke", documentId)
        revoked == revokeResult(user, documentId)
        reachesRevoke == documents[documentId] # NoRecord /\ isIssued(documentId)
    IN
    /\ meta' = IF reachesRevoke THEN revokeEffect(user, documentId) ELSE meta
    /\ events' = IF reachesRevoke /\ revoked = OK
                 THEN events \cup {DocumentRevoked(documentId, user, reason)}
                 ELSE events
    /\ response' =
          IF documents[documentId] = NoRecord
          THEN Reply(req, 404, "Document not found", "")
          ELSE IF ~isIssued(documentId)
          THEN Reply(req, 400, "Document cannot be revoked", "")
          ELSE IF revoked # OK
          THEN Reply(req, 500, "Failed to sign document", revoked)
          ELSE [Reply(req, 200, "", reason) EXCEPT !.revokedAt = now]
    /\ UNCHANGED <<signedAt, roles, allowedSignerForDocument, registryRoles,
                   now, pending, last, rawDoc, wrappedDocs, merkleCall, documents,
                   requests, collection, governance>>

\* --------------------------------------------------- POST /document/verify
\* slip: the recomputed root is not compared with the ledger's documentHash
verifiedNoHashCheck(documentId, computedRoot) ==
    isIssued(documentId) \/ meta[documentId].revokedAt > 0

\* slip: a revoked document is not verified
verifiedIssuedOnly(documentId, computedRoot) ==
    isIssued(documentId) /\ meta[documentId].documentHash = prefix0x(computedRoot)

\* (isIssued && hashMatches) || (revokedAt > 0 && hashMatches)
verifiedFrom(metaRead, isIssuedRead, computedRoot) ==
    \/ isIssuedRead /\ metaRead.documentHash = prefix0x(computedRoot)
    \/ metaRead.revokedAt > 0 /\ metaRead.documentHash = prefix0x(computedRoot)

\* the handler with nothing between its reads of the ledger
verified(documentId, computedRoot) ==
    verifiedFrom(meta[documentId], isIssued(documentId), computedRoot)

verifyReply(documentId, wrappedDocument) ==
    LET req == [Request("verify", documentId)
                  EXCEPT !.wrappedDocument = wrappedDocument]
        local == verifyWrappedMerkle(wrappedDocument)
    IN  IF documents[documentId] = NoRecord
        THEN Reply(req, 404, "Document not found", "")
        ELSE IF ~local.ok
        THEN Reply(req, 400, "Failed to verify document", local.reason)
        ELSE [Reply(req, 200, "", "") EXCEPT
                !.verified = verified(documentId, local.computedRoot),
                !.revokedAt = meta[documentId].revokedAt]

documentVerify(documentId, wrappedDocument) ==
    /\ response' = verifyReply(documentId, wrappedDocument)
    /\ UNCHANGED <<meta, signedAt, roles, allowedSignerForDocument,
                   registryRoles, events, now, pending, last, rawDoc,
                   wrappedDocs, merkleCall, documents, requests, collection,
                   governance>>

\* ------------------------------------------------ the copies people submit
\* a copy in which one token of the k-th salted string (in DFS order) is
\* another one: a character of its salt, of its type or of its value changed
RECURSIVE tamper(_, _, _, _)
tamper(node, k, pos, tok) ==
    IF isArray(node) \/ isPlainObject(node)
    THEN [node EXCEPT !.items =
            [i \in 1..Len(node.items) |->
               LET before == Len(collectItems(node.items, i - 1))
                   upTo == Len(collectItems(node.items, i))
               IN  IF before < k /\ k <= upTo
                   THEN tamper(node.items[i], k - before, pos, tok)
                   ELSE node.items[i]]]
    ELSE [node EXCEPT !.s[pos] = tok]

\* the token that takes the place of the salt, the type or the value
Replacement == <<"u6", "integer", "y">>

tamperings(data) ==
    {tamper(data, k, pos, Replacement[pos]) :
        k \in 1..Len(collectWrappedLeaves(data)), pos \in 1..3} \ {data}

\* the root the verifier computes for a copy
recomputedRoot(data) ==
    LET leaves == collectWrappedLeaves(data) IN
    merkleRootFromLeafHashes([i \in 1..Len(leaves) |-> leafHash(leaves[i])])

\* what a client can send for a stored document: the stored wrapped
\* document, a tampered copy with the stored root or with its own root, and
\* the stored data with no root or with a root of something else
Submissions(documentId) ==
    LET stored == documents[documentId].wrappedDocInfo IN
    {stored,
     [stored EXCEPT !.merkleRoot = Undefined],
     [stored EXCEPT !.merkleRoot = recomputedRoot(Undefined)]}
    \cup {[stored EXCEPT !.data = t] : t \in tamperings(stored.data)}
    \cup {[data |-> t, merkleRoot |-> recomputedRoot(t)] :
             t \in tamperings(stored.data)}

NextBackend ==
    \/ \E d \in DocumentIds, t \in DocumentTypes, body \in Bodies,
          r \in Recipients, isSignable \in BOOLEAN :
          \E uuids \in uuidDraws(BackendSalts, primitives(body)) :
             documentIssue(d, t, body, r, isSignable, uuids)
    \/ \E u \in Users, d \in DocumentIds : documentSign(u, d)
    \/ \E u \in Users, d \in DocumentIds, r \in Reasons : documentRevoke(u, d, r)
    \/ \E d \in DocumentIds :
          \E w \in Submissions(d) : documentVerify(d, w)
    \/ Tick

SpecBackend == Init /\ [][NextBackend]_vars

\* ---------------------------------------------------------- claims C11, C12
\* a step is a /document/verify request exactly when the handler holds for
\* the request that the step records in response
verifyStep ==
    /\ response'.op = "verify"
    /\ documentVerify(response'.documentId, response'.wrappedDocument)

Salts == {"u1", "u2", "u3", "u4"}
Primitives == {NumberValue(10), StringValue(<<"x">>)}
Level0 == Primitives \cup {ArrayValue(<<>>), ObjectValue(<<>>, <<>>)}

arraysOver(S) ==
    {ArrayValue(<<v>>) : v \in S} \cup {ArrayValue(<<v, w>>) : v, w \in S}
objectsOver(S) ==
    {ObjectValue(<<"a">>, <<v>>) : v \in S}
    \cup {ObjectValue(<<"a", "b">>, <<v, w>>) : v, w \in S}
    \cup {ObjectValue(<<"b", "a">>, <<v, w>>) : v, w \in S}

Level1 == Level0 \cup arraysOver(Level0) \cup objectsOver(Level0)

\* primitives, arrays and objects, empty and nested, up to three primitives
RawDocuments ==
    Level1
    \cup {ObjectValue(<<"a">>, <<v>>) : v \in Level1}
    \cup {ArrayValue(<<v>>) : v \in Level1}
    \cup {ObjectValue(<<"a", "b">>, <<p, ArrayValue(<<q, r>>)>>) :
             p \in Primitives, q \in Primitives, r \in Primitives}
    \cup {NumberValue(15), BooleanValue(TRUE), Null}

InitMerkle ==
    /\ Deployment("admin", "storeAdmin")
    /\ now = 1
    /\ pending = <<>>
    /\ last = NoCall
    /\ rawDoc \in RawDocuments
    /\ wrappedDocs = <<>>
    /\ merkleCall = NoMerkleCall
    /\ documents = [d \in DocumentIds |-> NoRecord]
    /\ response = NoRequest
    /\ requests = [u \in Users |-> Idle]
    /\ collection = <<>>

ledger == <<meta, signedAt, roles, allowedSignerForDocument, registryRoles,
            events, now, pending, last, governance>>

usedSalts ==
    UNION {{wrappedDocs[i].uuids[k] : k \in 1..Len(wrappedDocs[i].uuids)} :
              i \in 1..Len(wrappedDocs)}

wrapDocumentCall(uuids) ==
    /\ Len(wrappedDocs) < MaxCommits
    /\ LET w == wrapDocument(rawDoc, uuids) IN
       wrappedDocs' = Append(wrappedDocs,
                             [threw |-> w.threw, data |-> w.data,
                              merkleRoot |-> w.merkleRoot, uuids |-> uuids])
    /\ UNCHANGED <<ledger, rawDoc, merkleCall, documents, response,
                   requests, collection>>

\* the verifier is given the data of commit i with the root of commit j
verifyWrappedMerkleCall(i, j) ==
    /\ ~wrappedDocs[i].threw /\ ~wrappedDocs[j].threw
    /\ LET wrapped == [data |-> wrappedDocs[i].data,
                       merkleRoot |-> wrappedDocs[j].merkleRoot]
           v == verifyWrappedMerkle(wrapped)
       IN  merkleCall' = [NoMerkleCall EXCEPT
                            !.fn = "verifyWrappedMerkle", !.commit = i,
                            !.against = j, !.wrapped = wrapped, !.ok = v.ok,
                            !.reason = v.reason,
                            !.computedRoot = v.computedRoot,
                            !.targetRoot = v.targetRoot]
    /\ UNCHANGED <<ledger, rawDoc, wrappedDocs, documents, response,
                   requests, collection>>

permutations(n) ==
    {p \in [1..n -> 1..n] : \A i, j \in 1..n : i # j => p[i] # p[j]}

\* the leaf hashes of commit i, in the given order, go to merkleRoot and to
\* merkleRootFromLeafHashes; the data of commit i goes to merkleRoot
rootsCall(i, order) ==
    /\ ~wrappedDocs[i].threw
    /\ LET hashes == visit(wrappedDocs[i].data)
           leaves == [k \in 1..Len(hashes) |-> hashes[order[k]]]
       IN  merkleCall' = [NoMerkleCall EXCEPT
                            !.fn = "roots", !.commit = i, !.leaves = leaves,
                            !.fromDocument = merkleRoot(wrappedDocs[i].data),
                            !.fromLeaves = merkleRoot(ArrayValue(leaves)),
                            !.verifying = merkleRootFromLeafHashes(leaves)]
    /\ UNCHANGED <<ledger, rawDoc, wrappedDocs, documents, response,
                   requests, collection>>

NextMerkle ==
    \/ \E uuids \in uuidDraws(Salts \ usedSalts, primitives(rawDoc)) :
          wrapDocumentCall(uuids)
    \/ \E i, j \in 1..Len(wrappedDocs) : verifyWrappedMerkleCall(i, j)
    \/ \E i \in 1..Len(wrappedDocs) :
          \E order \in permutations(primitives(rawDoc)) : rootsCall(i, order)

SpecMerkle == InitMerkle /\ [][NextMerkle]_vars

\* ------------------------------------------------------ claims C13 .. C17
\* C13 as claimed: for every document, wrapDocument returns, and the root
\* that verifyWrappedMerkle recomputes from the returned data is the
\* returned signature.merkleRoot.
C13_SelfConsistent ==
    /\ \A i \in 1..Len(wrappedDocs) : ~wrappedDocs[i].threw
    /\ (merkleCall.fn = "verifyWrappedMerkle"
          /\ merkleCall.commit = merkleCall.against
          => merkleCall.computedRoot = merkleCall.targetRoot)

\* C14 as claimed: for the leaf hashes of a document in any order,
\* merkleRoot of the document, merkleRoot of the leaf array and
\* merkleRootFromLeafHashes of the leaf array are the same root.
C14_EntryPointsAgree ==
    merkleCall.fn = "roots"
      => /\ ~merkleCall.fromLeaves.threw
         /\ merkleCall.fromLeaves.root = merkleCall.verifying
         /\ ~merkleCall.fromDocument.threw
         /\ merkleCall.fromDocument.root = merkleCall.verifying

\* the documents that differ from a document only in the order of the keys
\* of its objects (kind "object") or of the elements of its arrays ("array")
RECURSIVE reorderings(_, _)
reorderings(node, kind) ==
    IF node.kind = "prim" THEN {node}
    ELSE LET n == Len(node.items)
             below == [i \in 1..n |-> reorderings(node.items[i], kind)]
             choices == {f \in [1..n -> UNION {below[i] : i \in 1..n}] :
                            \A i \in 1..n : f[i] \in below[i]}
             orders == IF node.kind = kind THEN permutations(n)
                       ELSE {[i \in 1..n |-> i]}
         IN  {[node EXCEPT
                 !.items = [i \in 1..n |-> f[p[i]]],
                 !.keys = IF isPlainObject(node)
                          THEN [i \in 1..n |-> node.keys[p[i]]] ELSE <<>>] :
                f \in choices, p \in orders}

\* the primitives of a document in the order in which saltDocument salts them
RECURSIVE traversal(_)
RECURSIVE traversalItems(_, _)
traversal(node) ==
    IF isArray(node) THEN traversalItems(node.items, Len(node.items))
    ELSE IF isPlainObject(node)
    THEN LET ks == sortedKeys(node) IN
         traversalItems([i \in 1..Len(ks) |-> valueOf(node, ks[i])], Len(ks))
    ELSE <<node>>
traversalItems(items, upTo) ==
    IF upTo = 0 THEN <<>>
    ELSE traversalItems(items, upTo - 1) \o traversal(items[upTo])

C16_FreshCommits ==
    primitives(rawDoc) >= 1 =>
      /\ \A i \in 1..Len(wrappedDocs) : ~wrappedDocs[i].threw
      /\ \A i, j \in 1..Len(wrappedDocs) :
            i # j => /\ wrappedDocs[i].data # wrappedDocs[j].data
                     /\ wrappedDocs[i].merkleRoot # wrappedDocs[j].merkleRoot
      /\ (merkleCall.fn = "verifyWrappedMerkle"
            => (merkleCall.ok <=> merkleCall.commit = merkleCall.against))

\* the root of nothing: keccak256 of the empty text, without 0x
hashOfEmpty == strip0x(keccak256Utf8(StringValue(<<>>)))

\* C17: wrapDocument returns for {} and for [] with hash("") as the root,
\* and for an empty leaf list merkleRoot and merkleRootFromLeafHashes both
\* return hash("").
C17_EmptyRoot ==
    /\ rawDoc \in {ObjectValue(<<>>, <<>>), ArrayValue(<<>>)}
         => \A i \in 1..Len(wrappedDocs) :
               /\ ~wrappedDocs[i].threw
               /\ wrappedDocs[i].merkleRoot = hashOfEmpty
    /\ merkleCall.fn = "roots" /\ merkleCall.leaves = <<>>
         => /\ merkleCall.fromLeaves = [threw |-> FALSE, root |-> hashOfEmpty]
            /\ merkleCall.verifying = hashOfEmpty

\* [] was wrapped and its empty leaf list given to both root computations
C17_Witness ==
    /\ rawDoc = ArrayValue(<<>>)
    /\ Len(wrappedDocs) >= 1
    /\ merkleCall.fn = "roots" /\ merkleCall.leaves = <<>>
    /\ merkleCall.verifying = wrappedDocs[1].merkleRoot

\* ------------------------------------------- attestations on the ledger
\* Properties of Spec.  A step is a call of setSignerForDocument / isSigned
\* exactly when the action holds for the arguments recorded in last.
isSignedStep ==
    /\ last'.op = "isSigned"
    /\ isSignedCall(last'.caller, last'.documentId)

\* C18: the per-document whitelist is read at each sign call and holds the
\* value of the last successful write.  Only a successful
\* setSignerForDocument changes it, and it then sets the written entry to
\* the value of that call whatever the entry held before; a sign by an
\* account whose entry is false fails; a sign by a holder of SIGNER_ROLE
\* that has not yet signed an Issued document succeeds when the entry is
\* true and fails with 'Signer not allowed' when it is false.
C18_LastWriteWins ==
    [][/\ (allowedSignerForDocument' # allowedSignerForDocument =>
             last'.op = "setSignerForDocument" /\ last'.res = OK)
       /\ (last'.op = "setSignerForDocument" /\ last'.res = OK =>
             \A s \in SignerTargets, b \in BOOLEAN :
                setSignerForDocument(last'.caller, last'.documentId, s, b) =>
                   allowedSignerForDocument' =
                      [allowedSignerForDocument
                         EXCEPT ![last'.documentId][s] = b])
       /\ (signStep =>
             LET c == last'.caller
                 d == last'.documentId
             IN
               /\ (~allowedSignerForDocument[d][c] => last'.res # OK)
               /\ (/\ hasRole(SIGNER_ROLE, c)
                   /\ meta[d].state = "Issued"
                   /\ signedAt[d][c] = 0
                   => IF allowedSignerForDocument[d][c]
                      THEN last'.res = OK
                      ELSE last'.res = NotAllowed))]_vars

\* an account that signed the document, so that its entry was true then, has
\* had its entry set to false and its next sign was refused for that reason
C18_Witness ==
    \E d \in DocumentIds :
        /\ meta[d].state = "Issued"
        /\ last.op = "sign" /\ last.documentId = d /\ last.res = NotAllowed
        /\ hasRole(SIGNER_ROLE, last.caller)
        /\ signedAt[d][last.caller] # 0
        /\ ~allowedSignerForDocument[d][last.caller]

C20_SignKeepsIssued ==
    /\ [](\A d \in DocumentIds : meta[d].state # "Signed")
    /\ [][signStep /\ last'.res = OK =>
            /\ meta' = meta
            /\ \A d \in DocumentIds :
                  d = last'.documentId =>
                     meta'[d].state = "Issued" /\ isIssued(d)']_vars

\* a sign has just succeeded and the document is Issued
C20_Witness ==
    \E d \in DocumentIds :
        /\ last.op = "sign" /\ last.documentId = d /\ last.res = OK
        /\ signedAt[d][last.caller] # 0
        /\ meta[d].state = "Issued"
        /\ isIssued(d)

\* ---------------------------------------------------------------- factory
\* inputs of the factory and registry calls
FactoryCallers == {"admin", "alice"}
StoreAdmins == {"storeAdmin", FactoryAddress, ZeroAddress}
StoreTargets == {TheStore, StoreAddresses[2], ZeroAddress}
AccountTargets == {"alice", ZeroAddress}
StandardGrants == {<<"alice", "alice", ZeroAddress>>,
                   <<ZeroAddress, ZeroAddress, "alice">>,
                   <<ZeroAddress, ZeroAddress, ZeroAddress>>}

onlyFactoryAdmin(caller) ==
    IF caller \notin factory.roles[FACTORY_ADMIN_ROLE] THEN MissingRole ELSE OK

\* the require on organisationAddress[organisationId] is commented out in
\* the source, so there is no test for an existing store
createStoreResult(caller, organisationId, storeAdmin) ==
    IF onlyFactoryAdmin(caller) # OK THEN MissingRole
    ELSE IF organisationId = Zero32 THEN InvalidOrganisation
    ELSE IF storeAdmin = ZeroAddress THEN InvalidAdmin
    ELSE OK

\* the address the next deployment gets
newStore == StoreAddresses[Len(factory.allStores) + 1]

createStore(caller, organisationId, storeAdmin) ==
    /\ Len(factory.allStores) < MaxStores
    /\ LET res == createStoreResult(caller, organisationId, storeAdmin) IN
       /\ factory' = IF res = OK
                     THEN created(factory, organisationId, newStore)
                     ELSE factory
       /\ deployed' = IF res = OK
                      THEN [s \in DOMAIN deployed \cup {newStore} |->
                              IF s = newStore
                              THEN [r \in StoreRoles |-> {storeAdmin}]
                              ELSE deployed[s]]
                      ELSE deployed
       /\ deployedDocuments' =
             IF res = OK
             THEN [s \in DOMAIN deployedDocuments \cup {newStore} |->
                     IF s = newStore
                     THEN NoDocuments(DOMAIN meta)
                     ELSE deployedDocuments[s]]
             ELSE deployedDocuments
       /\ last' = Call("createStore", caller, Zero32, res)
    /\ UNCHANGED <<meta, signedAt, roles, allowedSignerForDocument,
                   registryRoles, events, now, pending, offLedger, registry>>

isDeployed(store) ==
    \E i \in 1..Len(factory.allStores) : factory.allStores[i] = store

\* AccessControl._roles of the store at an address
storeRoles(store) == IF store = TheStore THEN roles ELSE deployed[store]

\* grantRole / revokeRole of a store called by the factory: msg.sender is
\* the factory, which must hold the role's admin role in that store
storeRoleCall(store) ==
    IF ~isDeployed(store) THEN NoCode
    ELSE IF FactoryAddress \notin storeRoles(store)[DEFAULT_ADMIN_ROLE]
    THEN MissingRole
    ELSE OK

setStoreRoleResult(caller, store, account) ==
    IF onlyFactoryAdmin(caller) # OK THEN MissingRole
    ELSE IF store = ZeroAddress THEN StoreIsZero
    ELSE IF account = ZeroAddress THEN AccountIsZero
    ELSE storeRoleCall(store)

\* a store's roles written for the store at an address
writeRoles(store, newRoles) ==
    /\ roles' = IF store = TheStore THEN newRoles ELSE roles
    /\ deployed' = IF store = TheStore THEN deployed
                   ELSE [deployed EXCEPT ![store] = newRoles]

setStoreRole(caller, store, role, account, grant) ==
    /\ IF setStoreRoleResult(caller, store, account) = OK
       THEN writeRoles(store,
                [storeRoles(store) EXCEPT ![role] =
                    IF grant THEN @ \cup {account} ELSE @ \ {account}])
       ELSE UNCHANGED <<roles, deployed>>
    /\ last' = Call("setStoreRole", caller, Zero32,
                    setStoreRoleResult(caller, store, account))
    /\ UNCHANGED <<meta, signedAt, allowedSignerForDocument, registryRoles,
                   events, now, pending, offLedger, factory, registry,
                   deployedDocuments>>

\* the role constants are read from the store first; a grant is called for
\* each non-zero address, and the first failing call reverts the whole
grantStandardRolesResult(caller, store, issuer, revoker, signer) ==
    IF onlyFactoryAdmin(caller) # OK THEN MissingRole
    ELSE IF store = ZeroAddress THEN StoreIsZero
    ELSE IF ~isDeployed(store) THEN NoCode
    ELSE IF issuer = ZeroAddress /\ revoker = ZeroAddress /\ signer = ZeroAddress
    THEN OK
    ELSE storeRoleCall(store)

grantStandardRoles(caller, store, issuer, revoker, signer) ==
    /\ IF grantStandardRolesResult(caller, store, issuer, revoker, signer) = OK
       THEN writeRoles(store,
                [storeRoles(store) EXCEPT
                    ![ISSUER_ROLE] = @ \cup ({issuer} \ {ZeroAddress}),
                    ![REVOKER_ROLE] = @ \cup ({revoker} \ {ZeroAddress}),
                    ![SIGNER_ROLE] = @ \cup ({signer} \ {ZeroAddress})])
       ELSE UNCHANGED <<roles, deployed>>
    /\ last' = Call("grantStandardRoles", caller, Zero32,
                    grantStandardRolesResult(caller, store, issuer, revoker,
                                             signer))
    /\ UNCHANGED <<meta, signedAt, allowedSignerForDocument, registryRoles,
                   events, now, pending, offLedger, factory, registry,
                   deployedDocuments>>

\* ------------------------------------------------ registry's whitelists
\* slip: the setters are open to every caller
onlyRegistryAdminOpen(caller) == OK

onlyRegistryAdmin(caller) ==
    IF caller \notin registryRoles[REGISTRY_ADMIN_ROLE] THEN MissingRole ELSE OK

\* the value of a mapping to bool after mapping[key] = active
assign(mapping, key, active) ==
    IF active THEN mapping \cup {key} ELSE mapping \ {key}

\* a setter of the registry: the write when the caller is admitted, the
\* outcome, and everything else unchanged
registrySetter(op, caller, written) ==
    /\ registry' = IF onlyRegistryAdmin(caller) = OK THEN written ELSE registry
    /\ last' = Call(op, caller, Zero32, onlyRegistryAdmin(caller))
    /\ UNCHANGED <<meta, signedAt, roles, allowedSignerForDocument,
                   registryRoles, events, now, pending, offLedger, factory,
                   deployed, deployedDocuments>>

setIssuer(caller, documentType, issuer, active) ==
    registrySetter("setIssuer", caller,
        [registry EXCEPT
            !.allowedIssuer = assign(@, <<documentType, issuer>>, active)])

setSigner(caller, documentType, signer, active) ==
    registrySetter("setSigner", caller,
        [registry EXCEPT
            !.allowedSigner = assign(@, <<documentType, signer>>, active)])

setInterop(caller, fromContract, toContract, allowed) ==
    registrySetter("setInterop", caller,
        [registry EXCEPT
            !.allowCall = assign(@, <<fromContract, toContract>>, allowed)])

setRequiredSignerCount(caller, documentType, count) ==
    registrySetter("setRequiredSignerCount", caller,
        [registry EXCEPT !.requiredSignerCount[documentType] = count])

\* the factory's setInterop calls the registry's: msg.sender there is the
\* factory
factorySetInteropResult(caller) ==
    IF onlyFactoryAdmin(caller) # OK THEN MissingRole
    ELSE onlyRegistryAdmin(FactoryAddress)

factorySetInterop(caller, fromContract, toContract, allowed) ==
    /\ registry' = IF factorySetInteropResult(caller) = OK
                   THEN [registry EXCEPT
                           !.allowCall =
                              assign(@, <<fromContract, toContract>>, allowed)]
                   ELSE registry
    /\ last' = Call("factory.setInterop", caller, Zero32,
                    factorySetInteropResult(caller))
    /\ UNCHANGED <<meta, signedAt, roles, allowedSignerForDocument,
                   registryRoles, events, now, pending, offLedger, factory,
                   deployed, deployedDocuments>>

\* AccessControl.grantRole of the registry: the admin role of every role is
\* DEFAULT_ADMIN_ROLE
registryGrantRoleResult(caller) ==
    IF caller \notin registryRoles[DEFAULT_ADMIN_ROLE] THEN MissingRole ELSE OK

registryGrantRole(caller, role, account) ==
    /\ registryRoles' = IF registryGrantRoleResult(caller) = OK
                        THEN [registryRoles EXCEPT ![role] = @ \cup {account}]
                        ELSE registryRoles
    /\ last' = Call("registry.grantRole", caller, Zero32,
                    registryGrantRoleResult(caller))
    /\ UNCHANGED <<meta, signedAt, roles, allowedSignerForDocument, events,
                   now, pending, offLedger, governance>>

\* the factory and the registry under the calls of an admin and of an
\* account without any role; the admin of the first store may make the
\* factory an admin of it
NextGovernance ==
    \/ \E c \in FactoryCallers, o \in OrganisationIds \cup {Zero32},
          a \in StoreAdmins : createStore(c, o, a)
    \/ \E c \in FactoryCallers, s \in StoreTargets, r \in {SIGNER_ROLE},
          a \in AccountTargets, g \in BOOLEAN : setStoreRole(c, s, r, a, g)
    \/ \E c \in FactoryCallers, s \in StoreTargets, g \in StandardGrants :
          grantStandardRoles(c, s, g[1], g[2], g[3])
    \/ \E c \in FactoryCallers, b \in BOOLEAN :
          factorySetInterop(c, TheStore, StoreAddresses[2], b)
    \/ \E c \in StoreCallers : grantRole(c, DEFAULT_ADMIN_ROLE, FactoryAddress)
    \/ \E c \in RegistryCallers :
          registryGrantRole(c, REGISTRY_ADMIN_ROLE, FactoryAddress)
    \/ \E c \in RegistryCallers, t \in DocumentTypes, b \in BOOLEAN :
          setIssuer(c, t, "alice", b)
    \/ \E c \in RegistryCallers, t \in DocumentTypes, b \in BOOLEAN :
          setSigner(c, t, "alice", b)
    \/ \E c \in RegistryCallers, d \in DocumentIds, b \in BOOLEAN :
          setSignerForDocument(c, d, "alice", b)
    \/ \E c \in RegistryCallers, b \in BOOLEAN :
          setInterop(c, TheStore, StoreAddresses[2], b)
    \/ \E c \in RegistryCallers, t \in DocumentTypes, n \in {0, 1} :
          setRequiredSignerCount(c, t, n)

SpecGovernance == Init /\ [][NextGovernance]_vars

\* C21: createStore reverts for an organisation that already has a store:
\* organisationAddress[organisationId] never changes once it is set, and no
\* organisationId ever has more than one store deployed for it.
C21_OneStorePerOrganisation ==
    /\ [][\A o \in OrganisationIds :
            factory.organisationAddress[o] # ZeroAddress =>
               factory'.organisationAddress[o] = factory.organisationAddress[o]]_vars
    /\ [](\A o \in OrganisationIds :
            Cardinality({s \in Stores : factory.organisationStore[s] = o}) <= 1)

\* the registry setters, by the name the call is recorded under
RegistrySetters == {"setIssuer", "setSigner", "setSignerForDocument",
                    "setInterop", "setRequiredSignerCount"}

\* C25: administrative operations are role-gated.  A createStore succeeds
\* only for a caller holding FACTORY_ADMIN_ROLE and only with a non-zero
\* organisationId and storeAdmin, and nothing else changes the factory's
\* storage; a setter of the registry succeeds only for a caller holding
\* REGISTRY_ADMIN_ROLE, and the whitelists change only in a successful call
\* whose sender at the registry (the caller, or the factory for the
\* factory's setInterop) holds that role, so the call of an account without
\* the role leaves every whitelist as it was.
C25_AdminGated ==
    [][/\ (last'.op = "createStore" /\ last'.res = OK =>
             /\ last'.caller \in factory.roles[FACTORY_ADMIN_ROLE]
             /\ \A o \in OrganisationIds \cup {Zero32}, a \in StoreAdmins :
                   createStore(last'.caller, o, a) =>
                      o # Zero32 /\ a # ZeroAddress)
       /\ (factory' # factory =>
             /\ last'.op = "createStore" /\ last'.res = OK
             /\ last'.caller \in factory.roles[FACTORY_ADMIN_ROLE])
       /\ (last'.op \in RegistrySetters /\ last' # last /\ last'.res = OK =>
             last'.caller \in registryRoles[REGISTRY_ADMIN_ROLE])
       /\ (registry' # registry
             \/ allowedSignerForDocument' # allowedSignerForDocument =>
             /\ last'.res = OK
             /\ IF last'.op = "factory.setInterop"
                THEN FactoryAddress \in registryRoles[REGISTRY_ADMIN_ROLE]
                ELSE /\ last'.op \in RegistrySetters
                     /\ last'.caller \in registryRoles[REGISTRY_ADMIN_ROLE])]_vars

\* an account without REGISTRY_ADMIN_ROLE has just tried to whitelist
\* itself for a document and is not whitelisted, and the factory admin has
\* created a further store
C25_Witness ==
    \E d \in DocumentIds :
        /\ last.op = "setSignerForDocument" /\ last.res = MissingRole
        /\ last.caller \notin registryRoles[REGISTRY_ADMIN_ROLE]
        /\ ~allowedSignerForDocument[d][last.caller]
        /\ Len(factory.allStores) > 1

\* C26: for a store deployed through createStore, a factory admin's
\* setStoreRole(store, role, account, grant) with a non-zero account
\* succeeds, and afterwards account holds role in the store exactly when
\* grant is true; grantStandardRoles succeeds and afterwards every non-zero
\* address given holds its role.
C26_FactoryManagesRoles ==
    [][/\ (last'.op = "setStoreRole" =>
             \A s \in Stores, a \in AccountTargets \ {ZeroAddress},
                g \in BOOLEAN :
                /\ setStoreRole(last'.caller, s, SIGNER_ROLE, a, g)
                /\ last'.caller \in factory.roles[FACTORY_ADMIN_ROLE]
                /\ isDeployed(s)
                => /\ last'.res = OK
                   /\ (a \in storeRoles(s)[SIGNER_ROLE])' <=> g)
       /\ (last'.op = "grantStandardRoles" =>
             \A s \in Stores, g \in StandardGrants :
                /\ grantStandardRoles(last'.caller, s, g[1], g[2], g[3])
                /\ last'.caller \in factory.roles[FACTORY_ADMIN_ROLE]
                /\ isDeployed(s)
                => /\ last'.res = OK
                   /\ (g[1] # ZeroAddress =>
                          g[1] \in storeRoles(s)[ISSUER_ROLE])'
                   /\ (g[2] # ZeroAddress =>
                          g[2] \in storeRoles(s)[REVOKER_ROLE])'
                   /\ (g[3] # ZeroAddress =>
                          g[3] \in storeRoles(s)[SIGNER_ROLE])')]_vars

\* ------------------------------------------------- issuers and registry
\* the store's issue next to the registry's issuer whitelist
NextRegistry ==
    \/ \E c \in StoreCallers, d \in DocumentIds, h \in DocumentHashes,
          t \in DocumentTypes : issue(c, d, h, t)
    \/ \E c \in StoreCallers, d \in DocumentIds, r \in Reasons : revoke(c, d, r)
    \/ \E c \in StoreCallers, a \in RoleTargets : grantRole(c, ISSUER_ROLE, a)
    \/ \E c \in RegistryCallers, t \in DocumentTypes, a \in StoreCallers,
          b \in BOOLEAN : setIssuer(c, t, a, b)

SpecRegistry == Init /\ [][NextRegistry]_vars

\* C24: an issue succeeds only if its caller holds ISSUER_ROLE on the store
\* and is whitelisted as an issuer of the document type in the registry.
C24_IssuerWhitelisted ==
    [][issueStep /\ last'.res = OK =>
         /\ hasRole(ISSUER_ROLE, last'.caller)
         /\ <<last'.documentType, last'.caller>> \in registry.allowedIssuer]_vars

\* C23: a successful revoke(documentId, reason) records the reason in the
\* ledger's record of the document next to revokedAt, so that the reason can
\* be read from the record: the records that revoke writes for two different
\* reasons differ.
revokedRecord(caller, documentId, reason) ==
    revokeEffect(caller, documentId)[documentId]

C23_ReasonRecorded ==
    [][revokeStep /\ last'.res = OK =>
         /\ meta'[last'.documentId].state = "Revoked"
         /\ meta'[last'.documentId].revokedAt = now
         /\ \A r1 \in Reasons, r2 \in Reasons :
               r1 # r2 =>
                  revokedRecord(last'.caller, last'.documentId, r1)
                     # revokedRecord(last'.caller, last'.documentId, r2)]_vars

\* ------------------------------------------------ two documents, signers
\* One store holding two documents, to tell a document from the others.
\* Issues come from the store's admin; time stands still.
TwoDocuments == {"d1", "d2"}

InitAttest ==
    /\ RegistryStorage("admin", TwoDocuments)
    /\ StoreStorage("storeAdmin", TwoDocuments)
    /\ FactoryDeployment("admin")
    /\ now = 1
    /\ pending = <<>>
    /\ last = NoCall
    /\ OffLedgerInit

NextAttest ==
    \/ \E d \in TwoDocuments, t \in DocumentTypes : issue("storeAdmin", d, "h1", t)
    \/ \E c \in StoreCallers, d \in TwoDocuments : sign(c, d)
    \/ \E d \in TwoDocuments : revoke("storeAdmin", d, "FRAUD")
    \/ \E c \in StoreCallers : grantRole(c, SIGNER_ROLE, "alice")
    \/ \E d \in TwoDocuments, s \in SignerTargets, b \in BOOLEAN :
          setSignerForDocument("admin", d, s, b)

SpecAttest == InitAttest /\ [][NextAttest]_vars

\* C27: signers attest independently.  Whether a sign by s on documentId
\* succeeds depends only on s's role, the document's state, s's whitelist
\* entry and s's own timestamp, so an attestation by another signer neither
\* is required nor stands in the way; a successful sign writes
\* signedAt[documentId][s] and nothing else: the meta of every document,
\* every other timestamp, the roles and the whitelists stay as they were,
\* and a failed sign writes nothing.
C27_IndependentAttestations ==
    [][signStep =>
        LET c == last'.caller
            d == last'.documentId
        IN
          /\ (last'.res = OK <=>
                /\ hasRole(SIGNER_ROLE, c)
                /\ meta[d].state = "Issued"
                /\ allowedSignerForDocument[d][c]
                /\ signedAt[d][c] = 0)
          /\ signedAt' = IF last'.res = OK
                         THEN [signedAt EXCEPT ![d][c] = now]
                         ELSE signedAt
          /\ \A e \in DOMAIN signedAt, a \in Address :
                e # d \/ a # c => signedAt'[e][a] = signedAt[e][a]
          /\ meta' = meta
          /\ UNCHANGED <<roles, allowedSignerForDocument, registryRoles,
                         governance>>]_vars

\* the second of two signers has just attested a document that the first
\* had attested before, while the other document is issued and carries
\* no attestation
C27_Witness ==
    \E d \in TwoDocuments, e \in TwoDocuments, s \in Address :
        /\ DOMAIN meta = TwoDocuments
        /\ e # d
        /\ last.op = "sign" /\ last.documentId = d /\ last.res = OK
        /\ s # last.caller
        /\ signedAt[d][s] # 0 /\ signedAt[d][last.caller] # 0
        /\ meta[e].state = "Issued"
        /\ \A a \in Address : signedAt[e][a] = 0

\* --------------------------------------- documents with unsupported nodes
\* undefined is a node that is none of object, array, string, integer, real
\* number, boolean and null; like a function it has a typeof that asTypeTag
\* does not name
UnsupportedDocuments ==
    {Undefined, ArrayValue(<<Undefined>>), ObjectValue(<<"a">>, <<Undefined>>)}
    \cup {ObjectValue(<<"a", "b">>, <<p, Undefined>>) : p \in Primitives}
    \cup {ObjectValue(<<"a", "b">>, <<Undefined, ArrayValue(<<p>>)>>) :
             p \in Primitives}
    \cup {ArrayValue(<<p, Undefined>>) : p \in Primitives}
    \cup {ObjectValue(<<"a">>, <<ArrayValue(<<p, Undefined>>)>>) :
             p \in Primitives}

InitMalformed ==
    /\ Deployment("admin", "storeAdmin")
    /\ now = 1
    /\ pending = <<>>
    /\ last = NoCall
    /\ rawDoc \in UnsupportedDocuments
    /\ wrappedDocs = <<>>
    /\ merkleCall = NoMerkleCall
    /\ documents = [d \in DocumentIds |-> NoRecord]
    /\ response = NoRequest
    /\ requests = [u \in Users |-> Idle]
    /\ collection = <<>>

NextMalformed ==
    \/ \E uuids \in uuidDraws(Salts \ usedSalts, primitives(rawDoc)) :
          wrapDocumentCall(uuids)
    \/ \E i, j \in 1..Len(wrappedDocs) : verifyWrappedMerkleCall(i, j)

SpecMalformed == InitMalformed /\ [][NextMalformed]_vars

\* a node of a type that the commitment does not support
RECURSIVE unsupportedIn(_)
unsupportedIn(node) ==
    IF node.kind = "prim"
    THEN node.js \notin {"string", "number", "boolean", "null"}
    ELSE \E i \in 1..Len(node.items) : unsupportedIn(node.items[i])

\* C22: committing a document that contains a node of an unsupported type
\* is rejected: wrapDocument throws and returns no SaltedDocument and no
\* root.
C22_MalformedRejected ==
    \A i \in 1..Len(wrappedDocs) :
        unsupportedIn(rawDoc) =>
           /\ wrappedDocs[i].threw
           /\ wrappedDocs[i].data = Undefined
           /\ wrappedDocs[i].merkleRoot = Undefined

\* --------------------------------------------- the bag of salted strings
\* documents that hold the salted strings of a SaltedDocument, each as often
\* as it does: the strings in any order in one array, that array nested in
\* an array or under a key, the strings under the keys a and b in either
\* order, and the document with its array elements or keys re-ordered
rearrangements(salted) ==
    LET strings == collectWrappedLeaves(salted)
        n == Len(strings)
        flat == {ArrayValue([k \in 1..n |-> strings[p[k]]]) :
                    p \in permutations(n)}
    IN  flat
        \cup {ArrayValue(<<f>>) : f \in flat}
        \cup {ObjectValue(<<"a">>, <<f>>) : f \in flat}
        \cup (IF n = 0 \/ n > Len(KeyOrder) THEN {}
              ELSE {ObjectValue([k \in 1..n |-> KeyOrder[q[k]]], f.items) :
                       f \in flat, q \in permutations(n)})
        \cup reorderings(salted, "array")
        \cup reorderings(salted, "object")

\* the root the issuing side computes from the leaves of a SaltedDocument
\* (app.js: merkleRoot(buildLeaves(data)))
rootOfLeaves(salted) == merkleRoot(ArrayValue(buildLeaves(salted)))

\* C28: the root of a SaltedDocument depends only on the bag of its salted
\* strings.  For every committed SaltedDocument and every rearrangement of
\* it, the root that the issuing side computes from buildLeaves and the
\* root that the verifying side recomputes are, each, the same for the
\* rearrangement as for the document, and the two sides agree.
C28_BagOnly ==
    \A i \in 1..Len(wrappedDocs) :
        ~wrappedDocs[i].threw =>
           \A R \in rearrangements(wrappedDocs[i].data) :
              /\ ~rootOfLeaves(R).threw
              /\ rootOfLeaves(R) = rootOfLeaves(wrappedDocs[i].data)
              /\ recomputedRoot(R) = recomputedRoot(wrappedDocs[i].data)
              /\ rootOfLeaves(R).root = recomputedRoot(R)

\* a commitment of two or more salted strings has been made and verified;
\* among its rearrangements are an array and an object that differ from it
C28_Witness ==
    \E i \in 1..Len(wrappedDocs) :
        /\ ~wrappedDocs[i].threw
        /\ Len(collectWrappedLeaves(wrappedDocs[i].data)) >= 2
        /\ merkleCall.fn = "verifyWrappedMerkle" /\ merkleCall.commit = i
        /\ merkleCall.ok
        /\ \E R, Q \in rearrangements(wrappedDocs[i].data) :
              /\ isArray(R) /\ isPlainObject(Q)
              /\ R # wrappedDocs[i].data /\ Q # wrappedDocs[i].data
              /\ rootOfLeaves(R).root = merkleCall.computedRoot
              /\ recomputedRoot(Q) = merkleCall.computedRoot

\* ===================== /document/issue next to direct calls of the store ====
\* The backend is one client of the store among others: the store admin can
\* also call revoke itself, and can give up its own DEFAULT_ADMIN_ROLE, after
\* which the grantRole that /document/issue sends for a signable document
\* reverts.  Here issue is called by /document/issue only, so every document
\* that is Issued was made Issued by a run of the handler; a run is one step,
\* so every state is a state in which no run is under way.
NextIssuing ==
    \/ \E d \in DocumentIds, t \in DocumentTypes, body \in Bodies,
          r \in Recipients, isSignable \in BOOLEAN :
          \E uuids \in uuidDraws(BackendSalts, primitives(body)) :
             documentIssue(d, t, body, r, isSignable, uuids)
    \/ \E u \in Users, d \in DocumentIds : documentSign(u, d)
    \/ \E u \in Users, d \in DocumentIds : documentRevoke(u, d, "FRAUD")
    \/ \E d \in DocumentIds : revoke(IssuerUser, d, "FRAUD")
    \/ revokeRole(IssuerUser, DEFAULT_ADMIN_ROLE, IssuerUser)
    \/ Tick

SpecIssuing == Init /\ [][NextIssuing]_vars

\* C29: when a run of /document/issue has ended, with success or with an
\* error, a document that the run made Issued on the ledger has a stored
\* record that holds its raw document and its salted document.
C29_IssuedIsStored ==
    \A d \in DocumentIds :
        meta[d].state = "Issued"
           => /\ documents[d] # NoRecord
              /\ documents[d].rawDocInfo \in Bodies
              /\ documents[d].wrappedDocInfo.data # Undefined

C37_RecordShape ==
    /\ [](\A d \in DocumentIds :
            /\ meta[d].revokedAt # 0 <=> meta[d].state = "Revoked"
            /\ meta[d].issuer # ZeroAddress <=> meta[d].state # "None"
            /\ meta[d].issuedAt # 0 <=> meta[d].state # "None"
            /\ \A s \in DOMAIN signedAt[d] :
                  signedAt[d][s] # 0 => meta[d].state \in {"Issued", "Revoked"})
    /\ [][\A d \in DocumentIds :
            meta[d].state = "Revoked" => signedAt'[d] = signedAt[d]]_vars

\* a document that carries an attestation has been revoked, and a later
\* sign of it by a second whitelisted signer was refused
C37_Witness ==
    \E d \in DocumentIds :
        /\ meta[d].state = "Revoked" /\ meta[d].revokedAt # 0
        /\ \E s \in DOMAIN signedAt[d] : signedAt[d][s] # 0
        /\ last.op = "sign" /\ last.documentId = d /\ last.res = NotSignable
        /\ allowedSignerForDocument[d][last.caller]
        /\ hasRole(SIGNER_ROLE, last.caller)

deployedIssueResult(store, caller, documentId) ==
    IF caller \notin storeRoles(store)[ISSUER_ROLE] THEN MissingRole
    ELSE IF deployedDocuments[store].meta[documentId].state # "None"
    THEN AlreadyExists
    ELSE OK

deployedIssue(store, caller, documentId, documentHash, documentType) ==
    /\ store # TheStore /\ isDeployed(store)
    /\ deployedDocuments' =
          IF deployedIssueResult(store, caller, documentId) = OK
          THEN [deployedDocuments EXCEPT ![store].meta[documentId] =
                   DocumentMeta(documentHash, documentType, caller, now, 0,
                                "Issued")]
          ELSE deployedDocuments
    /\ last' = [Call("deployed.issue", caller, documentId,
                     deployedIssueResult(store, caller, documentId))
                  EXCEPT !.documentHash = documentHash,
                         !.documentType = documentType]
    /\ UNCHANGED <<meta, signedAt, roles, allowedSignerForDocument,
                   registryRoles, events, now, pending, offLedger, factory,
                   deployed, registry>>

deployedRevokeResult(store, caller, documentId) ==
    IF caller \notin storeRoles(store)[REVOKER_ROLE] THEN MissingRole
    ELSE IF ~(deployedDocuments[store].meta[documentId].state
                 \in {"Issued", "Signed"})
    THEN NotRevocable
    ELSE OK

deployedRevoke(store, caller, documentId, reason) ==
    /\ store # TheStore /\ isDeployed(store)
    /\ deployedDocuments' =
          IF deployedRevokeResult(store, caller, documentId) = OK
          THEN [deployedDocuments EXCEPT
                   ![store].meta[documentId].state = "Revoked",
                   ![store].meta[documentId].revokedAt = now]
          ELSE deployedDocuments
    /\ last' = Call("deployed.revoke", caller, documentId,
                    deployedRevokeResult(store, caller, documentId))
    /\ UNCHANGED <<meta, signedAt, roles, allowedSignerForDocument,
                   registryRoles, events, now, pending, offLedger, factory,
                   deployed, registry>>

\* the first store holds two documents, one of them with a signer; the
\* factory deploys further stores for alice, which hold documents of the
\* same documentIds; time stands still
NextStores ==
    \/ \E d \in TwoDocuments, t \in DocumentTypes :
          issue("storeAdmin", d, "h1", t)
    \/ sign("storeAdmin", "d1")
    \/ \E d \in TwoDocuments : revoke("storeAdmin", d, "FRAUD")
    \/ setSignerForDocument("admin", "d1", "storeAdmin", TRUE)
    \/ createStore("admin", OrganisationId, "alice")
    \/ \E S \in DOMAIN deployed, d \in TwoDocuments, t \in DocumentTypes :
          deployedIssue(S, "alice", d, "h2", t)
    \/ \E S \in DOMAIN deployed, d \in TwoDocuments :
          deployedRevoke(S, "alice", d, "FRAUD")

SpecStores == InitAttest /\ [][NextStores]_vars

\* the documents of a store other than the one the call went to
sameExcept(documentsAfter, documentsBefore, documentId) ==
    /\ documentsAfter.signedAt = documentsBefore.signedAt
    /\ \A e \in DOMAIN documentsBefore.meta :
          e # documentId => documentsAfter.meta[e] = documentsBefore.meta[e]

\* C40: a successful issue or revoke on documentId d in a store S changes
\* only meta[d] of S, and a revoke only its state and revokedAt; signedAt of
\* every document, the meta of every other documentId of S and the whole
\* state of every other store (roles, meta and signedAt, also those of the
\* document with the same documentId there) stay as they were.
C40_Isolation ==
    [][/\ ((issueStep \/ revokeStep) /\ last'.res = OK =>
             /\ sameExcept([meta |-> meta', signedAt |-> signedAt'],
                           [meta |-> meta, signedAt |-> signedAt],
                           last'.documentId)
             /\ deployedDocuments' = deployedDocuments
             /\ deployed' = deployed)
       /\ (revokeStep /\ last'.res = OK =>
             meta' = [meta EXCEPT ![last'.documentId].state = "Revoked",
                                  ![last'.documentId].revokedAt = now])
       /\ \A S \in DOMAIN deployed :
             (/\ last'.op \in {"deployed.issue", "deployed.revoke"}
              /\ last'.res = OK
              /\ deployedDocuments'[S] # deployedDocuments[S])
                => /\ sameExcept(deployedDocuments'[S], deployedDocuments[S],
                                 last'.documentId)
                   /\ (last'.op = "deployed.revoke" =>
                         deployedDocuments'[S].meta =
                            [deployedDocuments[S].meta EXCEPT
                               ![last'.documentId].state = "Revoked",
                               ![last'.documentId].revokedAt = now])
                   /\ \A T \in DOMAIN deployed \ {S} :
                         deployedDocuments'[T] = deployedDocuments[T]
                   /\ meta' = meta /\ signedAt' = signedAt
                   /\ roles' = roles /\ deployed' = deployed]_vars

\* a document of the first store has just been revoked while the other
\* document there is issued and signed, and the second store holds an
\* issued document of the same documentId
C40_Witness ==
    \E d \in TwoDocuments, e \in TwoDocuments, S \in DOMAIN deployed :
        /\ e # d
        /\ last.op = "revoke" /\ last.documentId = d /\ last.res = OK
        /\ meta[d].state = "Revoked"
        /\ meta[e].state = "Issued"
        /\ \E f \in TwoDocuments : signedAt[f]["storeAdmin"] # 0
        /\ deployedDocuments[S].meta[d].state = "Issued"
        /\ deployedDocuments[S].meta[d].documentHash # meta[d].documentHash

\* ============================================ the factory's bookkeeping ====
storesLength == Len(factory.allStores)

StoreDoesNotExist == "Store does not exist"

\* allStores is indexed from 0
storeAtResult(index) ==
    IF index < Len(factory.allStores) THEN OK ELSE StoreDoesNotExist

storeAt(index) ==
    IF storeAtResult(index) = OK THEN factory.allStores[index + 1]
    ELSE ZeroAddress

\* a step is a call of createStore
createStoreStep ==
    \E c \in FactoryCallers, o \in OrganisationIds \cup {Zero32},
       a \in StoreAdmins : createStore(c, o, a)

\* C38: after any sequence of createStore calls, storesLength is the number
\* of successful createStore calls (the one of the deployment included):
\* a successful call raises it by one and puts the store it deployed at the
\* last index, and no other step changes it or an entry below it;
\* storeAt(i) reverts exactly for i >= storesLength; every store of
\* allStores has a non-zero organisationStore entry; and
\* organisationStore[organisationAddress[o]] = o for every organisation o
\* that has an address.
C38_FactoryBookkeeping ==
    /\ [](/\ storesLength = Cardinality(DOMAIN deployed) + 1
          /\ \A i \in 0..(MaxStores + 1) :
                /\ storeAtResult(i) = OK <=> i < storesLength
                /\ i < storesLength =>
                      /\ storeAt(i) = StoreAddresses[i + 1]
                      /\ isDeployed(storeAt(i))
                      /\ factory.organisationStore[storeAt(i)] # Zero32
          /\ \A o \in OrganisationIds :
                factory.organisationAddress[o] # ZeroAddress =>
                   factory.organisationStore[factory.organisationAddress[o]] = o)
    /\ [][(\A i \in 0..(MaxStores + 1) :
               i < storesLength => storeAt(i)' = storeAt(i))
           /\ (IF last'.op = "createStore" /\ last'.res = OK /\ createStoreStep
               THEN /\ storesLength' = storesLength + 1
                    /\ \A j \in 0..(MaxStores + 1) :
                          j = storesLength =>
                             /\ storeAt(j)' = newStore
                             /\ storeAt(j)' \in DOMAIN deployed' \ DOMAIN deployed
               ELSE storesLength' = storesLength)]_vars

\* a second store has just been created for the organisation of the first
C38_Witness ==
    /\ last.op = "createStore" /\ last.res = OK
    /\ storesLength = 2
    /\ storeAt(1) = factory.organisationAddress[OrganisationId]
    /\ storeAt(0) # storeAt(1)
    /\ factory.organisationStore[storeAt(0)] = OrganisationId
    /\ storeAtResult(2) = StoreDoesNotExist

\* ================================= the store next to the type settings ====
\* The registry admin changes the type-level settings (allowedSigner,
\* allowCall, requiredSignerCount) while the store is used; time stands
\* still.
TypeSettings == {"setSigner", "setInterop", "setRequiredSignerCount"}

NextSettings ==
    \/ \E c \in StoreCallers, d \in DocumentIds, t \in DocumentTypes :
          issue(c, d, "h1", t)
    \/ \E c \in StoreCallers, d \in DocumentIds : sign(c, d)
    \/ \E c \in StoreCallers, d \in DocumentIds : revoke(c, d, "FRAUD")
    \/ \E d \in DocumentIds : isIssuedCall(d)
    \/ \E c \in StoreCallers, d \in DocumentIds : isSignedCall(c, d)
    \/ grantRole("storeAdmin", SIGNER_ROLE, "alice")
    \/ \E d \in DocumentIds, b \in BOOLEAN :
          setSignerForDocument("admin", d, "alice", b)
    \/ \E t \in DocumentTypes, a \in StoreCallers, b \in BOOLEAN :
          setSigner("admin", t, a, b)
    \/ \E b \in BOOLEAN : setInterop("admin", TheStore, StoreAddresses[2], b)
    \/ \E t \in DocumentTypes, n \in 0..2 :
          setRequiredSignerCount("admin", t, n)

SpecSettings == Init /\ [][NextSettings]_vars

expectedRoot(T) ==
    LET H(l, r) == keccak256Concat(l, r) IN
    CASE Len(T) = 1 -> T[1]
      [] Len(T) = 2 -> H(T[1], T[2])
      [] Len(T) = 3 -> H(H(T[1], T[2]), H(T[3], T[3]))
      [] Len(T) = 4 -> H(H(T[1], T[2]), H(T[3], T[4]))
      [] Len(T) = 5 -> H(H(H(T[1], T[2]), H(T[3], T[4])),
                         H(H(T[5], T[5]), H(T[5], T[5])))
      [] Len(T) = 6 -> H(H(H(T[1], T[2]), H(T[3], T[4])),
                         H(H(T[5], T[6]), H(T[5], T[6])))

\* the sorted leaf lists of one to six leaves made of the leaf hashes of a
\* commitment, each of them taken up to twice
sortedLeafLists(hashes) ==
    LET twice == SortSeq(hashes \o hashes, hexLess) IN
    {SubSeq(twice, 1, n) : n \in 1..Len(twice)}
    \cup {SubSeq(twice, 2, n) : n \in 2..Len(twice)}

\* C31: over a non-empty sorted leaf list both tree constructions hash
\* adjacent pairs, left then right, level by level, pairing an odd last node
\* with itself; every level of two or more nodes is followed by a strictly
\* shorter one (half its length, rounded up), so the loop ends; and a single
\* leaf is returned unchanged as the root.
C31_TreeShape ==
    merkleCall.fn = "roots" =>
       \A T \in sortedLeafLists(merkleCall.leaves) :
          /\ topLevel(T) = <<expectedRoot(T)>>
          /\ ~merkleRoot(ArrayValue(T)).threw
          /\ merkleRoot(ArrayValue(T)).root = strip0x(expectedRoot(T))
          /\ merkleRootFromLeafHashes(T) = slice2(expectedRoot(T))
          /\ \A level \in {T, nextLevel(T), nextLevel(nextLevel(T))} :
                Len(level) >= 2 =>
                   /\ Len(nextLevel(level)) = (Len(level) + 1) \div 2
                   /\ Len(nextLevel(level)) < Len(level)
          /\ (Len(T) = 1 => /\ merkleRoot(ArrayValue(T)).root = strip0x(T[1])
                            /\ merkleRootFromLeafHashes(T) = slice2(T[1]))

\* the roots of a commitment of three different leaves have been computed
\* from its sorted leaves
C31_Witness ==
    /\ merkleCall.fn = "roots"
    /\ Len(merkleCall.leaves) = 3
    /\ merkleCall.leaves = SortSeq(merkleCall.leaves, hexLess)
    /\ merkleCall.leaves[1] # merkleCall.leaves[2]
    /\ merkleCall.leaves[2] # merkleCall.leaves[3]
    /\ merkleCall.fromLeaves.root = strip0x(expectedRoot(merkleCall.leaves))
    /\ merkleCall.verifying = slice2(expectedRoot(merkleCall.leaves))

\* ======================================== what a root binds a copy to ====
\* every primitive value of a copy in DFS order, strings or not
RECURSIVE primitiveValues(_)
RECURSIVE primitiveValuesIn(_, _)
primitiveValues(node) ==
    IF isArray(node) \/ isPlainObject(node)
    THEN primitiveValuesIn(node.items, Len(node.items))
    ELSE <<node>>
primitiveValuesIn(items, upTo) ==
    IF upTo = 0 THEN <<>>
    ELSE primitiveValuesIn(items, upTo - 1) \o primitiveValues(items[upTo])

\* two lists hold the same values, each as often in one as in the other
sameBag(s, t) ==
    /\ Len(s) = Len(t)
    /\ \A i \in 1..Len(s) :
          Cardinality({k \in 1..Len(s) : s[k] = s[i]})
             = Cardinality({k \in 1..Len(t) : t[k] = s[i]})

\* copies that hold the committed data and one value more: one of the
\* committed salted strings a second time
duplications(data) ==
    LET strings == collectWrappedLeaves(data) IN
    {ArrayValue(<<data, strings[k]>>) : k \in 1..Len(strings)}
    \cup {ObjectValue(<<"a", "b">>, <<data, strings[k]>>) :
              k \in 1..Len(strings)}

\* and a number, a boolean or null that was never salted
unsaltedAdditions(data) ==
    {ArrayValue(<<data, v>>) : v \in {NumberValue(10), BooleanValue(TRUE), Null}}
    \cup {ObjectValue(<<"a", "b">>, <<data, v>>) :
              v \in {NumberValue(10), BooleanValue(TRUE), Null}}

\* C33: binding of the commitment.  Once the verifier has found the data of
\* a commitment to recompute to its committed root, a copy recomputes to
\* that root only if its primitive values are exactly the committed salted
\* strings, each as often; a copy that adds a duplicate of a salted string,
\* or a number, a boolean or null, never recomputes to the committed root.
C33_Binding ==
    merkleCall.fn = "verifyWrappedMerkle" /\ merkleCall.ok =>
       LET data == merkleCall.wrapped.data
           committed == prefix0x(merkleCall.targetRoot)
       IN  /\ \A copy \in rearrangements(data) \cup tamperings(data)
                           \cup duplications(data)
                           \cup unsaltedAdditions(data) :
                 prefix0x(recomputedRoot(copy)) = committed
                    => sameBag(primitiveValues(copy),
                               collectWrappedLeaves(data))
           /\ \A copy \in duplications(data) \cup unsaltedAdditions(data) :
                 prefix0x(recomputedRoot(copy)) # committed

\* =================================== requests that run next to each other ====
\* A handler gives way at every await: between two of its reads of the
\* ledger or of the collection, and between a transaction and the next one,
\* other requests and other transactions can take place.  Each client has at
\* most one request under way; requests[user] holds where it stands (pc) and
\* what it has read.  storeAdmin issues through the first store, alice
\* through the store the factory deploys for alice.
docStore(user) == IF user = IssuerUser THEN TheStore ELSE StoreAddresses[2]

storeMeta(store) ==
    IF store = TheStore THEN meta ELSE deployedDocuments[store].meta

\* the record findOneByDocumentId returns is the first one inserted
issuerDocStoreOf(documentId) ==
    LET k == CHOOSE i \in 1..Len(collection) :
                /\ collection[i].documentId = documentId
                /\ \A j \in 1..(i - 1) : collection[j].documentId # documentId
    IN  collection[k].issuerDocStore

ends(user, reply) ==
    /\ requests' = [requests EXCEPT ![user] = Idle]
    /\ response' = reply

moves(user, pc) ==
    /\ requests' = [requests EXCEPT ![user].pc = pc]
    /\ UNCHANGED response

\* ---------------------------------------------- /document/issue, in steps
\* up to the answer of findOneByDocumentId; wrapDocument, buildLeaves and
\* merkleRoot do not wait for anything
issueFindOne(user, documentId, documentType, body, recipient, isSignable, uuids) ==
    LET req == Request("issue", documentId)
        wrappedDocument == wrapDocument(body, uuids)
        leaves == buildLeaves(wrappedDocument.data)
        documentHash == prefix0x(merkleRoot(ArrayValue(leaves)).root)
    IN
    /\ requests[user].pc = "idle"
    /\ docStore(user) = TheStore \/ isDeployed(docStore(user))
    /\ IF documents[documentId] # NoRecord
       THEN ends(user, Reply(req, 400, "Document already exists", ""))
       ELSE IF wrappedDocument.threw
       THEN ends(user, Reply(req, 500, "Failed to issue document", ""))
       ELSE /\ requests' =
                 [requests EXCEPT ![user] =
                    [Idle EXCEPT
                       !.pc = "isIssued", !.op = "issue",
                       !.documentId = documentId, !.store = docStore(user),
                       !.documentType = documentType,
                       !.isSignable = isSignable, !.recipient = recipient,
                       !.body = body,
                       !.wrappedDocument =
                          [data |-> wrappedDocument.data,
                           merkleRoot |-> wrappedDocument.merkleRoot],
                       !.documentHash = documentHash]]
            /\ UNCHANGED response
    /\ UNCHANGED <<ledger, rawDoc, wrappedDocs, merkleCall, documents,
                   collection>>

\* the answer of isIssued
issueIsIssued(user) ==
    LET r == requests[user] IN
    /\ r.op = "issue" /\ r.pc = "isIssued"
    /\ IF storeMeta(r.store)[r.documentId].state = "Issued"
       THEN ends(user, Reply(Request("issue", r.documentId), 400,
                             "Document already issued", ""))
       ELSE moves(user, "issue")
    /\ UNCHANGED <<ledger, rawDoc, wrappedDocs, merkleCall, documents,
                   collection>>

\* the issue transaction and its receipt
issueSend(user) ==
    LET r == requests[user]
        issued == IF r.store = TheStore
                  THEN issueResult(user, r.documentId)
                  ELSE deployedIssueResult(r.store, user, r.documentId)
    IN
    /\ r.op = "issue" /\ r.pc = "issue"
    /\ meta' = IF r.store = TheStore
               THEN issueEffect(user, r.documentId, r.documentHash,
                                r.documentType)
               ELSE meta
    /\ events' = IF r.store = TheStore
                 THEN issueEvents(user, r.documentId, r.documentHash,
                                  r.documentType)
                 ELSE events
    /\ deployedDocuments' =
          IF r.store # TheStore /\ issued = OK
          THEN [deployedDocuments EXCEPT ![r.store].meta[r.documentId] =
                   DocumentMeta(r.documentHash, r.documentType, user, now, 0,
                                "Issued")]
          ELSE deployedDocuments
    /\ IF issued # OK
       THEN ends(user, Reply(Request("issue", r.documentId), 500,
                             "Failed to issue document", issued))
       ELSE moves(user, IF r.isSignable THEN "grantRole" ELSE "save")
    /\ UNCHANGED <<signedAt, roles, allowedSignerForDocument, registryRoles,
                   now, pending, last, factory, deployed, registry,
                   rawDoc, wrappedDocs, merkleCall, documents, collection>>

\* grantRole(SIGNER_ROLE, documentSignerAddress) and its receipt
issueGrantRole(user) ==
    LET r == requests[user]
        granted == IF user \in storeRoles(r.store)[DEFAULT_ADMIN_ROLE]
                   THEN OK ELSE MissingRole
    IN
    /\ r.op = "issue" /\ r.pc = "grantRole"
    /\ roles' = IF r.store = TheStore /\ granted = OK
                THEN [roles EXCEPT ![SIGNER_ROLE] = @ \cup {r.recipient}]
                ELSE roles
    /\ deployed' = IF r.store # TheStore /\ granted = OK
                   THEN [deployed EXCEPT ![r.store][SIGNER_ROLE] =
                            @ \cup {r.recipient}]
                   ELSE deployed
    /\ IF granted # OK
       THEN ends(user, Reply(Request("issue", r.documentId), 500,
                             "Failed to issue document", granted))
       ELSE moves(user, "setSigner")
    /\ UNCHANGED <<meta, signedAt, allowedSignerForDocument, registryRoles,
                   events, now, pending, last, factory, deployedDocuments,
                   registry, rawDoc, wrappedDocs, merkleCall, documents,
                   collection>>

\* registryWrite.setSignerForDocument(documentId, signer, true) and its
\* receipt
issueSetSigner(user) ==
    LET r == requests[user]
        listed == setSignerForDocumentResult(FactoryAdmin)
    IN
    /\ r.op = "issue" /\ r.pc = "setSigner"
    /\ allowedSignerForDocument' =
          setSignerForDocumentEffect(FactoryAdmin, r.documentId, r.recipient,
                                     TRUE)
    /\ IF listed # OK
       THEN ends(user, Reply(Request("issue", r.documentId), 500,
                             "Failed to issue document", listed))
       ELSE moves(user, "save")
    /\ UNCHANGED <<meta, signedAt, roles, registryRoles, events, now, pending,
                   last, governance, rawDoc, wrappedDocs, merkleCall,
                   documents, collection>>

\* the second isIssued, newDocument.save() and the answer
issueSave(user) ==
    LET r == requests[user] IN
    /\ r.op = "issue" /\ r.pc = "save"
    /\ collection' = Append(collection,
                            Saved(r.documentId, r.store, r.documentHash))
    /\ documents' =
          IF documents[r.documentId] = NoRecord
          THEN [documents EXCEPT ![r.documentId] =
                   [documentHash |-> r.documentHash, rawDocInfo |-> r.body,
                    wrappedDocInfo |-> r.wrappedDocument]]
          ELSE documents
    /\ ends(user, [Reply(Request("issue", r.documentId), 200, "", "") EXCEPT
                      !.documentHash = r.documentHash,
                      !.wrappedDocument = r.wrappedDocument])
    /\ UNCHANGED <<ledger, rawDoc, wrappedDocs, merkleCall>>

\* --------------------------------------------- /document/verify, in steps
\* up to verifyWrappedMerkle: the record, its issuerDocStore, the local check
verifyFindOne(user, documentId, wrappedDocument) ==
    LET req == [Request("verify", documentId)
                  EXCEPT !.wrappedDocument = wrappedDocument]
        local == verifyWrappedMerkle(wrappedDocument)
    IN
    /\ requests[user].pc = "idle"
    /\ IF documents[documentId] = NoRecord
       THEN ends(user, Reply(req, 404, "Document not found", ""))
       ELSE IF ~local.ok
       THEN ends(user, Reply(req, 400, "Failed to verify document",
                             local.reason))
       ELSE /\ requests' =
                 [requests EXCEPT ![user] =
                    [Idle EXCEPT
                       !.pc = "meta", !.op = "verify",
                       !.documentId = documentId,
                       !.store = issuerDocStoreOf(documentId),
                       !.wrappedDocument = wrappedDocument,
                       !.computedRoot = local.computedRoot]]
            /\ UNCHANGED response
    /\ UNCHANGED <<ledger, rawDoc, wrappedDocs, merkleCall, documents,
                   collection>>

\* the answer of meta(documentId)
verifyMeta(user) ==
    LET r == requests[user] IN
    /\ r.op = "verify" /\ r.pc = "meta"
    /\ requests' = [requests EXCEPT
                      ![user].metaRead = storeMeta(r.store)[r.documentId],
                      ![user].pc = "isIssued"]
    /\ UNCHANGED <<ledger, rawDoc, wrappedDocs, merkleCall, documents,
                   response, collection>>

\* the answer of isIssued(documentId)
verifyIsIssued(user) ==
    LET r == requests[user] IN
    /\ r.op = "verify" /\ r.pc = "isIssued"
    /\ requests' = [requests EXCEPT
                      ![user].isIssuedRead =
                         storeMeta(r.store)[r.documentId].state = "Issued",
                      ![user].pc = "signedAt"]
    /\ UNCHANGED <<ledger, rawDoc, wrappedDocs, merkleCall, documents,
                   response, collection>>

\* the answer of signedAt(documentId, signer), and the reply
verifySignedAt(user) ==
    LET r == requests[user]
        req == [Request("verify", r.documentId)
                  EXCEPT !.wrappedDocument = r.wrappedDocument]
    IN
    /\ r.op = "verify" /\ r.pc = "signedAt"
    /\ ends(user, [Reply(req, 200, "", "") EXCEPT
                      !.verified = verifiedFrom(r.metaRead, r.isIssuedRead,
                                                r.computedRoot),
                      !.revokedAt = r.metaRead.revokedAt])
    /\ UNCHANGED <<ledger, rawDoc, wrappedDocs, merkleCall, documents,
                   collection>>

\* two users issue the same request body under the same documentId, anyone
\* verifies the stored wrapped document, the store admin revokes; time
\* stands still
RequestBody == ObjectValue(<<"a", "b">>, <<NumberValue(10), StringValue(<<"x">>)>>)

NextRequests ==
    \/ createStore("admin", OrganisationId, "alice")
    \/ \E user \in Users, d \in DocumentIds, t \in DocumentTypes,
          r \in Recipients, isSignable \in BOOLEAN :
          \E uuids \in uuidDraws(BackendSalts, primitives(RequestBody)) :
             issueFindOne(user, d, t, RequestBody, r, isSignable, uuids)
    \/ \E user \in Users : issueIsIssued(user)
    \/ \E user \in Users : issueSend(user)
    \/ \E user \in Users : issueGrantRole(user)
    \/ \E user \in Users : issueSetSigner(user)
    \/ \E user \in Users : issueSave(user)
    \/ \E user \in Users, d \in DocumentIds :
          verifyFindOne(user, d, documents[d].wrappedDocInfo)
    \/ \E user \in Users : verifyMeta(user)
    \/ \E user \in Users : verifyIsIssued(user)
    \/ \E user \in Users : verifySignedAt(user)
    \/ \E d \in DocumentIds : documentRevoke(IssuerUser, d, "FRAUD")

SpecRequests == Init /\ [][NextRequests]_vars

\* C35: in every reachable state the collection holds at most one record per
\* documentId, also when two /document/issue requests for the same
\* documentId run next to each other, through the same store or through
\* different ones.
C35_OneRecordPerDocumentId ==
    \A d \in DocumentIds :
        Cardinality({k \in 1..Len(collection) :
                        collection[k].documentId = d}) <= 1

\* C34: the answer of /document/verify reflects one state of the ledger:
\* for a stored document whose recomputed root is the documentHash on the
\* ledger, verified is true, whatever takes place between the handler's
\* reads of meta, isIssued and signedAt, a revoke of the document included.
C34_VerifiedInEveryInterleaving ==
    response.op = "verify" /\ response.status = 200 =>
       LET d == response.documentId
           onLedger == storeMeta(issuerDocStoreOf(d))[d]
       IN  (/\ onLedger.state # "None"
            /\ onLedger.documentHash
                  = prefix0x(recomputedRoot(response.wrappedDocument.data)))
              => response.verified

\* ====================================== the two answers about a document ====
\* ---------------------------------------------------- GET /document/single
\* isIssued && hashMatches
singleVerified(documentId, computedRoot) ==
    isIssued(documentId)
       /\ meta[documentId].documentHash = prefix0x(computedRoot)

singleReply(documentId) ==
    LET req == Request("single", documentId)
        local == verifyWrappedMerkle(documents[documentId].wrappedDocInfo)
    IN  IF documents[documentId] = NoRecord
        THEN Reply(req, 404, "Document not found", "")
        ELSE IF ~local.ok
        THEN Reply(req, 400, "Failed to verify document", local.reason)
        ELSE [Reply(req, 200, "", "") EXCEPT
                !.wrappedDocument = documents[documentId].wrappedDocInfo,
                !.verified = singleVerified(documentId, local.computedRoot),
                !.revokedAt = meta[documentId].revokedAt]

documentSingle(documentId) ==
    /\ response' = singleReply(documentId)
    /\ UNCHANGED <<ledger, rawDoc, wrappedDocs, merkleCall, documents,
                   requests, collection>>

\* documents are issued, signed and revoked through the backend, and looked
\* up through both endpoints, /document/verify with the stored wrapped
\* document
NextReading ==
    \/ \E d \in DocumentIds, t \in DocumentTypes, body \in Bodies,
          r \in Recipients, isSignable \in BOOLEAN :
          \E uuids \in uuidDraws(BackendSalts, primitives(body)) :
             documentIssue(d, t, body, r, isSignable, uuids)
    \/ \E u \in Users, d \in DocumentIds : documentSign(u, d)
    \/ \E u \in Users, d \in DocumentIds : documentRevoke(u, d, "FRAUD")
    \/ \E d \in DocumentIds : documentVerify(d, documents[d].wrappedDocInfo)
    \/ \E d \in DocumentIds : documentSingle(d)
    \/ Tick

SpecReading == Init /\ [][NextReading]_vars

\* C36: for the same stored document and the same state of the ledger,
\* /document/single and /document/verify, the latter given the stored
\* wrapped document, report the same verified value, for a Revoked document
\* whose root matches as for any other.
C36_SameVerified ==
    \A d \in DocumentIds :
        LET single == singleReply(d)
            verify == verifyReply(d, documents[d].wrappedDocInfo)
        IN  /\ response.op \in {"single", "verify"}
            /\ response.documentId = d
            /\ response \in {single, verify}
            /\ single.status = 200 /\ verify.status = 200
            => single.verified = verify.verified
====
